---- MODULE Spec2Model ----
(***************************************************************************)
(* A model of the airdrop-oracle Monte Carlo engine: the seeded PRNG, the  *)
(* parameter validators, the statistics, the primitive samplers, the       *)
(* mixture composers, the run functions of the auto-shaped and of the      *)
(* user-defined-ranges engine, and the simulator component that calls      *)
(* them.                                                                   *)
(*                                                                         *)
(* Numbers.  A 32-bit word of the PRNG is the set of its one-bits.  A      *)
(* uniform draw u = (s0 >>> 0) / 2^32 is carried as the pair [hi, lo] of   *)
(* the 16-bit halves of its numerator.  A double is the set of the         *)
(* positions of the one-bits of its magnitude (position q stands for 2^q), *)
(* with a sign where the code can produce one; every arithmetic operation  *)
(* rounds its exact result to the nearest double, ties to even, as         *)
(* IEEE-754 does, and Math.sqrt, Math.log, Math.exp and Math.cos are       *)
(* computed as the runtime's library computes them.  The validators        *)
(* compare numbers without computing with them: their parameters are       *)
(* integers.  The histogram takes logarithms in fixed point.               *)
(*                                                                         *)
(* Each part of the program has its own specification over the same        *)
(* variables; the parts a specification does not exercise keep their idle  *)
(* value.                                                                  *)
(***************************************************************************)
EXTENDS Integers, Sequences, FiniteSets, TLC

VARIABLES
    prng,     \* the PRNG under test: seed, state words, last output, calls
    vld,      \* the validator under test: the object passed, the object after
              \* the call, and what the call returned or threw
    stats,    \* the statistics of one run: the values, the sorted copy, who
              \* called sort(), the stats object, the histogram and the
              \* threshold probabilities
    smp,      \* the sampler under test: the range, the sampler called, its
              \* other arguments and the value it returned
    run,      \* two invocations of a run entry point on the same parameters
    ui        \* the simulator component: its React state, the pending timeout
              \* and what the last handler did

vars == <<prng, vld, stats, smp, run, ui>>

None == "none"

(***************************************************************************)
(* Bounds of the model.                                                    *)
(***************************************************************************)
MaxCalls == 24
MaxRanges == 2
MaxValues == 3

(***************************************************************************)
(* 32-bit words and naturals as sets of bit positions.                     *)
(***************************************************************************)
\* The same set, enumerated (TLC keeps unions and filters symbolic otherwise).
Enum(S) == {i : i \in S}

\* Below, CASE v = v -> e (or a first arm v # v) is e with v evaluated first.
\* (TLC passes arguments unevaluated and evaluates an argument once; a long
\* chain of pending arguments exhausts its stack.)

\* The value of the bits of S among the n positions from lo on, by halves.
RECURSIVE SumBits(_, _, _)
SumBits(S, lo, n) ==
    IF n = 1 THEN (IF lo \in S THEN 2^lo ELSE 0)
    ELSE SumBits(S, lo, n \div 2) + SumBits(S, lo + n \div 2, n - n \div 2)

SumPow(S) ==
    IF S = {} THEN 0
    ELSE LET lo == CHOOSE i \in S : \A j \in S : i <= j
             hi == CHOOSE i \in S : \A j \in S : i >= j
         IN  SumBits(S, lo, hi - lo + 1)

\* The bits of a natural below 2^16, moved up by sh places.
BitsOf(n, sh) == {i + sh : i \in {j \in 0..15 : (n \div 2^j) % 2 = 1}}

\* The word whose unsigned value is hi * 2^16 + lo.
Word(hi, lo) == Enum(BitsOf(hi, 16) \cup BitsOf(lo, 0))

Hi(w) == SumPow({i - 16 : i \in {j \in w : j >= 16 /\ j <= 31}})
Lo(w) == SumPow({j \in w : j <= 15})

\* x ^ y, x << n and x >>> n of JavaScript on the 32-bit pattern.
Xor(a, b) == Enum((a \ b) \cup (b \ a))
Shl(a, n) == {i + n : i \in {j \in a : j + n <= 31}}
Ushr(a, n) == {i - n : i \in {j \in a : j >= n}}

\* x >>> 0 (ToUint32) of a non-negative integer: its low 32 bits.
ToUint32(x) == Enum({i \in x : i <= 31})

(***************************************************************************)
(* Non-negative integers of any size (sets of bit positions) and the       *)
(* double-precision arithmetic of `seed * 1812433253 + 1`.                 *)
(***************************************************************************)
\* The highest and the lowest position of a non-empty set.  (TLC enumerates a
\* set upwards, so the highest position is looked for among the negations.)
MaxBit(x) == -(CHOOSE i \in {-j : j \in x} : \A j \in x : i <= -j)
MinBit(x) == CHOOSE i \in x : \A j \in x : i <= j

\* x + 2^e: the carry runs up to the first zero bit at or above e.
FirstZero(x, e) ==
    CHOOSE i \in e..(e + Cardinality(x)) : i \notin x /\ \A j \in e..(i - 1) : j \in x
AddBit(x, e) == {i \in x \cup {FirstZero(x, e)} : i < e \/ i >= FirstZero(x, e)}

\* Round a non-negative number to the nearest double (53 significant bits,
\* ties to even): what every arithmetic operation on JavaScript numbers does.
RoundAt(x, e) ==
    IF (e - 1) \in x /\ (e \in x \/ \E i \in x : i < e - 1)
    THEN AddBit({i \in x : i >= e}, e)
    ELSE {i \in x : i >= e}
RoundFinite(x) ==
    IF x = {} \/ MaxBit(x) - MinBit(x) <= 52 THEN x ELSE RoundAt(x, MaxBit(x) - 52)

\* A result of 2^1024 or more is Infinity.
Overflow(x) == IF \E i \in x : i >= 1024 THEN {1024} ELSE x
RoundDouble(x) == CASE x = x -> Overflow(RoundFinite(x))

(***************************************************************************)
(* JavaScript numbers.  A non-negative finite double is the set of the     *)
(* positions of its one-bits, positions below 0 for the fraction: 3 is     *)
(* {0, 1}, 0.75 is {-1, -2}, 0 is {}.  The D operators are exact; the F    *)
(* operators round the exact result to 53 significant bits, as +, -, * and *)
(* / of JavaScript do, a result beyond the doubles being Infinity.         *)
(* Subnormals do not occur for the magnitudes of the model and are not     *)
(* represented.                                                            *)
(***************************************************************************)
Min2(a, b) == IF a <= b THEN a ELSE b
Max2(a, b) == IF a >= b THEN a ELSE b

\* The number n, for an integer 0 <= n < 2^31.
Num(n) == {j \in 0..30 : (n \div 2^j) % 2 = 1}

\* The integer value of a small whole number.
IntOf(x) == SumPow(x)

DShift(x, n) == {i + n : i \in x}

\* NaN is carried as a bit no number has; every comparison with it is false.
\* Infinity is carried as 2^1024, the first magnitude beyond the doubles.
NaN == {2048}
Infinity == {1024}
IsNaN(x) == 2048 \in x

DLt(x, y) ==
    /\ ~IsNaN(x) /\ ~IsNaN(y)
    /\ x # y
    /\ MaxBit((x \ y) \cup (y \ x)) \in y
DLe(x, y) == ~IsNaN(x) /\ ~IsNaN(y) /\ (x = y \/ DLt(x, y))

\* x + y.  A carry enters position i when both numbers have a bit at some
\* position j below i and exactly one of them has a bit at every position
\* between j and i; the result has a bit where the bits of x and y and the
\* carry are one or three.  one holds the positions where exactly one of x
\* and y has a bit, both those where both have.
CarryInto(one, both, i) ==
    \E j \in both : j < i /\ \A m \in (j + 1)..(i - 1) : m \in one
AddBits(x, y, one, both) ==
    {i \in Min2(MinBit(x), MinBit(y))..(Max2(MaxBit(x), MaxBit(y)) + 1) :
         (i \in one) # CarryInto(one, both, i)}
DAdd(x, y) ==
    IF x = {} THEN y
    ELSE IF y = {} THEN x
    ELSE AddBits(x, y, Enum((x \ y) \cup (y \ x)), Enum(x \cap y))

\* x - y for x >= y.  A borrow enters position i when y alone has a bit at
\* some position j below i and x alone has a bit at no position between j
\* and i.  more holds the positions where y alone has a bit, less those where
\* x alone has.
BorrowInto(more, less, i) ==
    \E j \in more : j < i /\ \A m \in (j + 1)..(i - 1) : m \notin less
SubBits(x, y, more, less) ==
    {i \in Min2(MinBit(x), MinBit(y))..MaxBit(x) :
         (i \in more \/ i \in less) # BorrowInto(more, less, i)}
DSub(x, y) ==
    IF y = {} THEN x ELSE SubBits(x, y, Enum(y \ x), Enum(x \ y))

\* Digit k, in base 4096, of x / 2^b, and the digits of x from its lowest bit.
Limb(x, b, k) ==
    SumPow({i - b - 12 * k : i \in {j \in x : j >= b + 12 * k /\ j <= b + 12 * k + 11}})
Limbs(x) == [k \in 0..((MaxBit(x) - MinBit(x)) \div 12) |-> Limb(x, MinBit(x), k)]

\* The sum of ax[m] * ay[k - m] for the n indices m from i on, by halves.
RECURSIVE Dot(_, _, _, _, _)
Dot(ax, ay, k, i, n) ==
    IF n = 1
    THEN (IF i \in DOMAIN ax /\ (k - i) \in DOMAIN ay THEN ax[i] * ay[k - i] ELSE 0)
    ELSE Dot(ax, ay, k, i, n \div 2) + Dot(ax, ay, k, i + n \div 2, n - n \div 2)

\* The digits of the product from the column sums: st.bits holds the product
\* below digit k and st.c the carry into digit k; the n digits from k on, the
\* lower half first.
RECURSIVE MulCarry(_, _, _, _, _)
MulDigit(st, sum, b) ==
    [bits |-> Enum(st.bits \cup {b + j : j \in {i \in 0..11 : ((sum % 4096) \div 2^i) % 2 = 1}}),
     c    |-> sum \div 4096]
MulCarry(st, col, b, k, n) ==
    (CASE st = st -> IF n = 1 THEN MulDigit(st, col[k] + st.c, b + 12 * k)
                ELSE MulCarry(MulCarry(st, col, b, k, n \div 2),
                              col, b, k + n \div 2, n - n \div 2))

\* x * y by the school method on digits in base 4096: the digits of x and y,
\* the column sums, then the carries.
MulColumns(col, b, n) == (CASE col = col -> MulCarry([bits |-> {}, c |-> 0], col, b, 0, n).bits)
MulDigits(ax, ay, b) ==
    (CASE <<ax, ay>> = <<ax, ay>> ->
        MulColumns([k \in 0..(Cardinality(DOMAIN ax) + Cardinality(DOMAIN ay) - 1)
                       |-> Dot(ax, ay, k, 0, k + 1)],
                   b, Cardinality(DOMAIN ax) + Cardinality(DOMAIN ay)))
DMul(x, y) ==
    IF x = {} \/ y = {} THEN {}
    ELSE MulDigits(Limbs(x), Limbs(y), MinBit(x) + MinBit(y))

\* The value of the n bits of x from position lo on.
RECURSIVE Field(_, _, _)
Field(x, lo, n) ==
    IF n = 1 THEN (IF lo \in x THEN 1 ELSE 0)
    ELSE Field(x, lo, n \div 2) + 2^(n \div 2) * Field(x, lo + n \div 2, n - n \div 2)

\* Long division of one significand by another, each 53 bits in two digits
\* in base 2^27.  st.h and st.l are the digits of the remainder, scaled so
\* that the divisor stays in place, st.yh and st.yl those of the divisor, st.q
\* the quotient bits found so far; DivStep finds the n bits from position j
\* downwards, the upper half first, and stops when no remainder is left.
DivBase == 2^27
DivNext(st, h, l, q) ==
    [st EXCEPT !.h = 2 * h + (2 * l) \div DivBase, !.l = (2 * l) % DivBase, !.q = q]
DivBit(st, j) ==
    IF st.h > st.yh \/ (st.h = st.yh /\ st.l >= st.yl)
    THEN DivNext(st, IF st.l >= st.yl THEN st.h - st.yh ELSE st.h - st.yh - 1,
                 IF st.l >= st.yl THEN st.l - st.yl ELSE st.l - st.yl + DivBase,
                 st.q \cup {j})
    ELSE DivNext(st, st.h, st.l, st.q)
RECURSIVE DivStep(_, _, _)
DivStep(st, j, n) ==
    CASE st # st -> st
      [] st.h = 0 /\ st.l = 0 -> st
      [] n = 1 -> DivBit(st, j)
      [] OTHER -> DivStep(DivStep(st, j, n \div 2), j - n \div 2, n - n \div 2)

\* x / y to 56 quotient bits, and one bit below them when a remainder is left
\* (it only tells rounding that the quotient is inexact).
DivResult(st, top) ==
    CASE st # st -> {}
      [] st.h = 0 /\ st.l = 0 -> Enum(st.q)
      [] OTHER -> Enum(st.q \cup {top - 56})
DivFrom(x, y, ex, ey) ==
    DivResult(DivStep([h |-> Field(x, ex - 25, 26), l |-> Field(x, ex - 52, 27),
                       yh |-> Field(y, ey - 25, 26), yl |-> Field(y, ey - 52, 27), q |-> {}],
                      ex - ey, 56),
              ex - ey)
DDiv(x, y) == DivFrom(x, y, MaxBit(x), MaxBit(y))

\* A number too small to reach the rounding position of a sum whose leading
\* bit is at top acts on the rounding as a single bit far below it.
Sticky(y, top) == IF y = {} \/ MaxBit(y) >= top - 60 THEN y ELSE {top - 60}

\* x + y, x - y (for x >= y), x * y and x / y.  NaN operands give NaN, as do
\* Infinity - Infinity, Infinity * 0, Infinity / Infinity and 0 / 0.
FAdd(x, y) ==
    IF IsNaN(x) \/ IsNaN(y) THEN NaN
    ELSE IF x = Infinity \/ y = Infinity THEN Infinity
    ELSE IF x = {} THEN y
    ELSE IF y = {} THEN x
    ELSE RoundDouble(DAdd(Sticky(x, MaxBit(y)), Sticky(y, MaxBit(x))))
FSub(x, y) ==
    IF IsNaN(x) \/ IsNaN(y) \/ (x = Infinity /\ y = Infinity) THEN NaN
    ELSE IF x = Infinity THEN Infinity
    ELSE IF y = {} THEN x
    ELSE RoundDouble(DSub(x, Sticky(y, MaxBit(x))))
FMul(x, y) ==
    IF IsNaN(x) \/ IsNaN(y) THEN NaN
    ELSE IF x = Infinity \/ y = Infinity
    THEN (IF x = {} \/ y = {} THEN NaN ELSE Infinity)
    ELSE RoundDouble(DMul(x, y))
FDiv(x, y) ==
    IF IsNaN(x) \/ IsNaN(y) \/ (x = Infinity /\ y = Infinity) \/ (x = {} /\ y = {})
    THEN NaN
    ELSE IF x = Infinity \/ y = {} THEN Infinity
    ELSE IF x = {} \/ y = Infinity THEN {}
    ELSE RoundDouble(DDiv(x, y))

\* Math.sqrt, correctly rounded as IEEE-754 requires: the root bit by bit,
\* two bits of x for each bit of the root.  st.r holds the root bits found so
\* far, st.qh and st.ql the digits in base 2^29 of the root as an integer,
\* st.rh and st.rl those of the remainder of the bits of x read so far.  Bit p
\* is set when 4 * root + 1 still fits into the remainder with the next two
\* bits of x.  SqrtStep finds the n bits from position p downwards, the upper
\* half first.
SqrtBase == 2^29
SqrtPair(x, p) == (IF 2 * p + 1 \in x THEN 2 ELSE 0) + (IF 2 * p \in x THEN 1 ELSE 0)
SqrtExact(st, x, p) == st.rh = 0 /\ st.rl = 0 /\ MinBit(x) > 2 * p + 1
SqrtNext(rh, rl, qh, l2, r) ==
    [rh |-> rh, rl |-> rl, qh |-> 2 * qh + l2 \div SqrtBase, ql |-> l2 % SqrtBase, r |-> r]
SqrtCompare(st, nh, nl, th, tl, p) ==
    IF nh > th \/ (nh = th /\ nl >= tl)
    THEN SqrtNext(IF nl >= tl THEN nh - th ELSE nh - th - 1,
                  IF nl >= tl THEN nl - tl ELSE nl - tl + SqrtBase,
                  st.qh, 2 * st.ql + 1, st.r \cup {p})
    ELSE SqrtNext(nh, nl, st.qh, 2 * st.ql, st.r)
SqrtTrial(st, l4, t4, p) ==
    SqrtCompare(st, 4 * st.rh + l4 \div SqrtBase, l4 % SqrtBase,
                4 * st.qh + t4 \div SqrtBase, t4 % SqrtBase, p)
SqrtBit(st, x, p) ==
    IF SqrtExact(st, x, p) THEN st
    ELSE SqrtTrial(st, 4 * st.rl + SqrtPair(x, p), 4 * st.ql + 1, p)
RECURSIVE SqrtStep(_, _, _, _)
SqrtStep(st, x, p, n) ==
    CASE st # st -> st
      [] n = 1 -> SqrtBit(st, x, p)
      [] OTHER -> SqrtStep(SqrtStep(st, x, p, n \div 2), x, p - n \div 2, n - n \div 2)

SqrtResult(st, x, p) == IF SqrtExact(st, x, p) THEN Enum(st.r) ELSE Enum(st.r \cup {p})
SqrtFrom(x, top) ==
    SqrtResult(SqrtStep([rh |-> 0, rl |-> 0, qh |-> 0, ql |-> 0, r |-> {}], x, top, 56),
               x, top - 56)
FSqrt(x) ==
    IF x = {} THEN {}
    ELSE RoundDouble(SqrtFrom(x, MaxBit(x) \div 2))

\* Math.floor and Math.ceil.
Floor(x) == {i \in x : i >= 0}
Ceil(x) == IF \E i \in x : i < 0 THEN DAdd(Floor(x), {0}) ELSE x

(***************************************************************************)
(* Signed numbers: a sign and a magnitude.  Zero carries no sign (the      *)
(* program never divides by a zero it computed).                           *)
(***************************************************************************)
Signed(neg, mag) == [mag |-> mag, neg |-> neg /\ mag # {} /\ mag # NaN]
Plus(x) == Signed(FALSE, x)
Minus(x) == Signed(TRUE, x)
SInt(k) == Signed(k < 0, Num(IF k < 0 THEN -k ELSE k))

One == Plus(Num(1))
Two == Plus(Num(2))
Half == Plus({-1})

SIsNaN(a) == a.mag = NaN
SNeg(a) == [mag |-> a.mag, neg |-> ~a.neg /\ a.mag # {} /\ a.mag # NaN]

\* a + b, a - b, a * b and a / b of JavaScript.  (The cases are tried in the
\* order written; the first that applies gives the result.)
SAdd(a, b) ==
    CASE a.mag = NaN      -> Plus(NaN)
      [] b.mag = NaN      -> Plus(NaN)
      [] a.mag = Infinity -> (IF b.mag = Infinity /\ a.neg # b.neg THEN Plus(NaN) ELSE a)
      [] b.mag = Infinity -> b
      [] a.neg = b.neg    -> Signed(a.neg, FAdd(a.mag, b.mag))
      [] DLe(b.mag, a.mag) -> Signed(a.neg, FSub(a.mag, b.mag))
      [] OTHER            -> Signed(b.neg, FSub(b.mag, a.mag))
SSub(a, b) ==
    CASE a.mag = NaN      -> Plus(NaN)
      [] b.mag = NaN      -> Plus(NaN)
      [] a.mag = Infinity -> (IF b.mag = Infinity /\ a.neg = b.neg THEN Plus(NaN) ELSE a)
      [] b.mag = Infinity -> SNeg(b)
      [] a.neg # b.neg    -> Signed(a.neg, FAdd(a.mag, b.mag))
      [] DLe(b.mag, a.mag) -> Signed(a.neg, FSub(a.mag, b.mag))
      [] OTHER            -> Signed(~b.neg, FSub(b.mag, a.mag))
SMul(a, b) ==
    CASE a.mag = NaN      -> Plus(NaN)
      [] b.mag = NaN      -> Plus(NaN)
      [] a.mag = Infinity -> (IF b.mag = {} THEN Plus(NaN) ELSE Signed(a.neg # b.neg, Infinity))
      [] b.mag = Infinity -> (IF a.mag = {} THEN Plus(NaN) ELSE Signed(a.neg # b.neg, Infinity))
      [] OTHER            -> Signed(a.neg # b.neg, FMul(a.mag, b.mag))
SDiv(a, b) ==
    CASE a.mag = NaN      -> Plus(NaN)
      [] b.mag = NaN      -> Plus(NaN)
      [] a.mag = Infinity -> (IF b.mag = Infinity THEN Plus(NaN)
                              ELSE Signed(a.neg # b.neg, Infinity))
      [] b.mag = Infinity -> Plus({})
      [] b.mag = {}       -> (IF a.mag = {} THEN Plus(NaN) ELSE Signed(a.neg # b.neg, Infinity))
      [] OTHER            -> Signed(a.neg # b.neg, FDiv(a.mag, b.mag))

\* a < b and a <= b: false when either side is NaN.
SLt(a, b) ==
    IF a.neg /\ b.neg THEN DLt(b.mag, a.mag)
    ELSE IF a.neg THEN ~SIsNaN(b)
    ELSE IF b.neg THEN FALSE
    ELSE DLt(a.mag, b.mag)
SLe(a, b) == ~SIsNaN(a) /\ ~SIsNaN(b) /\ (a = b \/ SLt(a, b))

\* c[1] + z * (c[2] + z * (... + z * c[n])), from the innermost term outwards
\* as the expression is evaluated: acc is the value of the terms after c[i].
RECURSIVE Horner(_, _, _, _)
Horner(z, c, i, acc) ==
    IF acc.mag = NaN \/ i = 0 THEN acc
    ELSE Horner(z, c, i - 1, SAdd(c[i], SMul(z, acc)))
Polynomial(z, c) == Horner(z, c, Len(c) - 1, c[Len(c)])

\* Math.min, Math.max and Math.sqrt.
MathMin(a, b) ==
    CASE a.mag = NaN -> Plus(NaN)
      [] b.mag = NaN -> Plus(NaN)
      [] SLe(a, b)   -> a
      [] OTHER       -> b
MathMax(a, b) ==
    CASE a.mag = NaN -> Plus(NaN)
      [] b.mag = NaN -> Plus(NaN)
      [] SLe(a, b)   -> b
      [] OTHER       -> a
MathSqrt(a) ==
    CASE a.mag = NaN      -> Plus(NaN)
      [] a.neg            -> Plus(NaN)
      [] a.mag = Infinity -> a
      [] OTHER            -> Plus(FSqrt(a.mag))

(***************************************************************************)
(* Math.log, Math.log10 and Math.exp.  ECMAScript leaves their last bit to *)
(* the engine; the model follows the fdlibm routines that V8 and           *)
(* SpiderMonkey run, operation by operation, so the values are those of    *)
(* Node and of the browsers built on these engines.  Subnormal arguments   *)
(* and results are not represented.                                        *)
(***************************************************************************)
\* The double with exponent e and the 52 fraction bits h (20 bits), l1 and
\* l0 (16 bits each), as its two words are written in hexadecimal.
Binary64(e, h, l1, l0) ==
    Enum({e} \cup DShift(Num(h), e - 20) \cup DShift(Word(l1, l0), e - 52))

\* The first 20 fraction bits of a positive double (the low 20 bits of its
\* high word).
Top20(x) ==
    LET e == MaxBit(x)
    IN  SumPow({i - (e - 20) : i \in {j \in x : j >= e - 20 /\ j < e}})

Ln2Hi == Plus(Binary64(-1, 405058, 65248, 0))
Ln2Lo == Plus(Binary64(-33, 670191, 13689, 15478))
Lg1 == Plus(Binary64(-1, 349525, 21845, 21907))
Lg2 == Plus(Binary64(-2, 629145, 39319, 64004))
Lg3 == Plus(Binary64(-2, 149796, 37922, 37721))
Lg4 == Plus(Binary64(-3, 815557, 7566, 30895))
Lg5 == Plus(Binary64(-3, 476772, 38603, 990))
Lg6 == Plus(Binary64(-3, 236041, 53368, 50847))
Lg7 == Plus(Binary64(-3, 192786, 57150, 21060))
Third == Plus(Binary64(-2, 349525, 21845, 21845))

\* log of a finite positive double: x = 2^k * (1 + f) with
\* sqrt(2)/2 < 1 + f < sqrt(2), log(1 + f) by a polynomial in s = f / (2 + f).
\* x = 2^k * (1 + f): the exponent k and the fraction f.
LogExponent(x) == MaxBit(x) + (IF Top20(x) >= 434332 THEN 1 ELSE 0)
LogMantissa(x) == SSub(Plus(DShift(x, -LogExponent(x))), One)

\* f near 0: log(1 + f) = f - f * f * (0.5 - f / 3).
LogNear(k, dk, f, R0) ==
    IF k = 0 THEN SSub(f, R0)
    ELSE SSub(SMul(dk, Ln2Hi), SSub(SSub(R0, SMul(dk, Ln2Lo)), f))

LogR(z, w) ==
    SAdd(SMul(z, Polynomial(w, <<Lg1, Lg3, Lg5, Lg7>>)),
         SMul(w, Polynomial(w, <<Lg2, Lg4, Lg6>>)))

LogMiddle(k, dk, f, s, R, hfsq) ==
    IF k = 0
    THEN SSub(f, SSub(hfsq, SMul(s, SAdd(hfsq, R))))
    ELSE SSub(SMul(dk, Ln2Hi),
              SSub(SSub(hfsq, SAdd(SMul(s, SAdd(hfsq, R)), SMul(dk, Ln2Lo))), f))

LogOuter(k, dk, f, s, R) ==
    IF k = 0
    THEN SSub(f, SMul(s, SSub(f, R)))
    ELSE SSub(SMul(dk, Ln2Hi), SSub(SSub(SMul(s, SSub(f, R)), SMul(dk, Ln2Lo)), f))

LogPick(hx, k, f, s, R) ==
    (CASE R = R -> IF hx >= 398458 /\ hx <= 440401
               THEN LogMiddle(k, SInt(k), f, s, R, SMul(SMul(Half, f), f))
               ELSE LogOuter(k, SInt(k), f, s, R))

LogSeries(hx, k, f, s, z) == (CASE z = z -> LogPick(hx, k, f, s, LogR(z, SMul(z, z))))

LogParts(hx, k, f, s) == (CASE s = s -> LogSeries(hx, k, f, s, SMul(s, s)))

LogSplit(hx, k, f) ==
    (CASE f = f ->
        IF hx >= 1048574 \/ hx = 0
        THEN IF f.mag = {}
             THEN IF k = 0 THEN Plus({})
                  ELSE SAdd(SMul(SInt(k), Ln2Hi), SMul(SInt(k), Ln2Lo))
             ELSE LogNear(k, SInt(k), f, SMul(SMul(f, f), SSub(Half, SMul(Third, f))))
        ELSE LogParts(hx, k, f, SDiv(f, SAdd(Two, f))))

LogFinite(x) == LogSplit(Top20(x), LogExponent(x), LogMantissa(x))

MathLog(a) ==
    CASE a.mag = NaN      -> Plus(NaN)
      [] a.neg            -> Plus(NaN)
      [] a.mag = {}       -> Minus(Infinity)
      [] a.mag = Infinity -> a
      [] OTHER            -> LogFinite(a.mag)

IvLn10 == Plus(Binary64(-2, 772987, 5414, 58638))
Log10Of2Hi == Plus(Binary64(-2, 214035, 20639, 24576))
Log10Of2Lo == Plus(Binary64(-42, 655091, 4593, 11062))

\* Math.log10: x = 2^(k + i) * m with i = 1 for k < 0, and
\* log10(x) = (k + i) * log10(2) + log(m) / ln(10).
MathLog10(a) ==
    IF SIsNaN(a) \/ a.neg THEN Plus(NaN)
    ELSE IF a.mag = {} THEN Minus(Infinity)
    ELSE IF a.mag = Infinity THEN a
    ELSE IF a.mag = Num(1) THEN Plus({})
    ELSE LET k == MaxBit(a.mag)
             i == IF k < 0 THEN 1 ELSE 0
             y == SInt(k + i)
             m == DShift(a.mag, -(k + i))
             z == SAdd(SMul(y, Log10Of2Lo), SMul(IvLn10, LogFinite(m)))
         IN  SAdd(z, SMul(y, Log10Of2Hi))

InvLn2 == Plus(Binary64(0, 464199, 25899, 33534))
P1 == Plus(Binary64(-3, 349525, 21845, 21822))
P2 == Minus(Binary64(-9, 442732, 5822, 48531))
P3 == Plus(Binary64(-14, 87658, 44837, 56876))
P4 == Minus(Binary64(-20, 769345, 50642, 27633))
P5 == Plus(Binary64(-25, 407401, 29374, 42192))
ExpOverflow == Plus(Binary64(9, 405058, 65274, 14831))
ExpUnderflow == Minus(Binary64(9, 477456, 54573, 12369))
HalfLn2 == Binary64(-2, 405059, 0, 0)
ThreeHalvesLn2 == Binary64(0, 41650, 0, 0)

\* exp of a finite double between the two thresholds: x = k * ln2 + r with
\* |r| <= ln2 / 2, exp(r) by a rational function of r, scaled by 2^k.
ExpScale(k, y) == Signed(y.neg, DShift(y.mag, k))

ExpResult(a, k, hi, lo, x, c) ==
    (CASE c = c ->
        IF ~DLe(HalfLn2, a.mag) /\ DLt(a.mag, {-28}) THEN SAdd(One, a)
        ELSE IF k = 0 THEN SSub(One, SSub(SDiv(SMul(x, c), SSub(c, Two)), x))
        ELSE ExpScale(k, SSub(One, SSub(SSub(lo, SDiv(SMul(x, c), SSub(Two, c))), hi))))

ExpC(x, tt) == SSub(x, SMul(tt, Polynomial(tt, <<P1, P2, P3, P4, P5>>)))

ExpSeries(a, k, hi, lo, x) == (CASE x = x -> ExpResult(a, k, hi, lo, x, ExpC(x, SMul(x, x))))

ExpReduced(a, k, hi, lo) ==
    (CASE <<hi, lo>> = <<hi, lo>> ->
            ExpSeries(a, k, hi, lo, IF DLe(HalfLn2, a.mag) THEN SSub(hi, lo) ELSE a))

ExpMultiple(a, k) ==
    ExpReduced(a, k, SSub(a, SMul(SInt(k), Ln2Hi)), SMul(SInt(k), Ln2Lo))

ExpFinite(a) ==
    IF ~DLe(HalfLn2, a.mag) THEN ExpReduced(a, 0, Plus({}), Plus({}))
    ELSE IF DLt(a.mag, ThreeHalvesLn2)
    THEN ExpReduced(a, IF a.neg THEN -1 ELSE 1,
                    SSub(a, Signed(a.neg, Ln2Hi.mag)), Signed(a.neg, Ln2Lo.mag))
    ELSE ExpMultiple(a, (IF a.neg THEN -1 ELSE 1)
                        * IntOf(Floor(SAdd(SMul(InvLn2, a), Signed(a.neg, {-1})).mag)))

MathExp(a) ==
    CASE a.mag = NaN          -> a
      [] a.mag = Infinity     -> (IF a.neg THEN Plus({}) ELSE a)
      [] SLt(ExpOverflow, a)  -> Plus(Infinity)
      [] SLt(a, ExpUnderflow) -> Plus({})
      [] OTHER                -> ExpFinite(a)


(***************************************************************************)
(* Math.cos, after the fdlibm routine: the argument is reduced by a        *)
(* multiple n of pi/2 to y0 + y1 with |y0| <= pi/4, and the cosine is      *)
(* +-cos or +-sin of the remainder by a polynomial.  The program calls it  *)
(* on 2 * Math.PI * u with 0 <= u < 1, so the argument lies in [0, 2 pi).  *)
(***************************************************************************)
CosC1 == Plus(Binary64(-5, 349525, 21845, 21836))
CosC2 == Minus(Binary64(-10, 442732, 5825, 20855))
CosC3 == Plus(Binary64(-16, 655776, 6603, 5520))
CosC4 == Minus(Binary64(-22, 163407, 32924, 21165))
CosC5 == Plus(Binary64(-29, 126622, 48564, 45508))
CosC6 == Minus(Binary64(-37, 588521, 48776, 14548))
SinS1 == Minus(Binary64(-3, 349525, 21845, 21833))
SinS2 == Plus(Binary64(-7, 69905, 4368, 63654))
SinS3 == Minus(Binary64(-13, 655776, 6593, 25045))
SinS4 == Plus(Binary64(-19, 466403, 22449, 65149))
SinS5 == Minus(Binary64(-26, 714214, 35371, 40171))
SinS6 == Plus(Binary64(-33, 383290, 23247, 54652))
InvPio2 == Plus(Binary64(-1, 286512, 28105, 51331))
Pio2_1 == Plus(Binary64(0, 598523, 21568, 0))
Pio2_1t == Plus(Binary64(-34, 46177, 6754, 25393))
Pio2_2 == Plus(Binary64(-34, 46177, 6752, 0))
Pio2_2t == Plus(Binary64(-69, 203146, 11779, 28787))
Pio2_3 == Plus(Binary64(-69, 203146, 11776, 0))
Pio2_3t == Plus(Binary64(-104, 754586, 9504, 18881))

\* cos(x + y) for |x| <= pi/4 and a small correction y.
CosQx(x) ==
    IF DLe(Binary64(-1, 589825, 0, 0), x.mag) THEN Plus({-2, -5})
    ELSE Plus(DShift({i \in x.mag : i >= MaxBit(x.mag) - 20}, -2))

CosLarge(z, zr, qx) == SSub(SSub(One, qx), SSub(SSub(SMul(Half, z), qx), zr))

CosResult(x, z, zr) ==
    (CASE zr = zr -> IF DLt(x.mag, Binary64(-2, 209715, 0, 0))
                THEN SSub(One, SSub(SMul(Half, z), zr))
                ELSE CosLarge(z, zr, CosQx(x)))

CosR(z) == SMul(z, Polynomial(z, <<CosC1, CosC2, CosC3, CosC4, CosC5, CosC6>>))

CosSeries(x, y, z) == (CASE z = z -> CosResult(x, z, SSub(SMul(z, CosR(z)), SMul(x, y))))

KernelCos(x, y) ==
    IF DLt(x.mag, {-27}) THEN One
    ELSE CosSeries(x, y, SMul(x, x))

\* sin(x + y) for |x| <= pi/4 and a small correction y.
SinResult(x, y, z, v, r) ==
    (CASE <<v, r>> = <<v, r>> ->
        SSub(x, SSub(SSub(SMul(z, SSub(SMul(Half, y), SMul(v, r))), y), SMul(v, SinS1))))

SinSeries(x, y, z) ==
    (CASE z = z -> SinResult(x, y, z, SMul(z, x),
                         Polynomial(z, <<SinS2, SinS3, SinS4, SinS5, SinS6>>)))

KernelSin(x, y) ==
    IF DLt(x.mag, {-27}) THEN x
    ELSE SinSeries(x, y, SMul(x, x))

\* The first 20 fraction bits of n * pi/2, and its exponent, for n = 1..4.
NPio2Top == <<598523, 598523, 186748, 598523>>
NPio2Exp == <<0, 1, 2, 2>>

\* How many binary places the difference y0 lies below x.
Cancelled(x, y0) == IF y0.mag = {} THEN 1023 ELSE MaxBit(x) - MaxBit(y0.mag)

\* x - n * pi/2 = y0 + y1 for pi/4 < x < 2 pi, with pi/2 taken in pieces
\* of 33 bits: one piece where nothing cancels, up to three where x is
\* close to a multiple of pi/2.
\* The remainder r less the part w of n * pi/2, and what the rounding of
\* that difference left behind.
Pio2Result(n, r, w, y0) == (CASE y0 = y0 -> [n |-> n, y0 |-> y0, y1 |-> SSub(SSub(r, y0), w)])
Pio2Pair(n, r, w) == (CASE <<r, w>> = <<r, w>> -> Pio2Result(n, r, w, SSub(r, w)))

\* One more round of the reduction: from the remainder r so far take away
\* the next piece hi of n * pi/2; lo is the tail below that piece.
Pio2Tail(r, rn, wa, fn, lo) == SSub(SMul(fn, lo), SSub(SSub(r, rn), wa))
Pio2Next(r, wa) == SSub(r, wa)

Pio2Third(x, n, r2) ==
    (CASE r2 = r2 -> Pio2Pair(n, Pio2Next(r2, SMul(SInt(n), Pio2_3)),
                         Pio2Tail(r2, Pio2Next(r2, SMul(SInt(n), Pio2_3)),
                                  SMul(SInt(n), Pio2_3), SInt(n), Pio2_3t)))

Pio2SecondPick(x, n, r2, w2, a2) ==
    (CASE a2 = a2 -> IF Cancelled(x, a2) <= 49 THEN Pio2Result(n, r2, w2, a2)
                ELSE Pio2Third(x, n, r2))

Pio2SecondTail(x, n, r1, r2, w2) == (CASE w2 = w2 -> Pio2SecondPick(x, n, r2, w2, SSub(r2, w2)))

Pio2Second(x, n, r1, r2) ==
    (CASE r2 = r2 -> Pio2SecondTail(x, n, r1, r2,
                               Pio2Tail(r1, r2, SMul(SInt(n), Pio2_2), SInt(n), Pio2_2t)))

Pio2FirstPick(x, n, far, r1, w1, a1) ==
    (CASE a1 = a1 -> IF far \/ Cancelled(x, a1) <= 16 THEN Pio2Result(n, r1, w1, a1)
                ELSE Pio2Second(x, n, r1, Pio2Next(r1, SMul(SInt(n), Pio2_2))))

Pio2First(x, n, far, r1, w1) ==
    (CASE <<r1, w1>> = <<r1, w1>> -> Pio2FirstPick(x, n, far, r1, w1, SSub(r1, w1)))

RemPio2Far(x, n) ==
    Pio2First(x, n, ~(MaxBit(x) = NPio2Exp[n] /\ Top20(x) = NPio2Top[n]),
              SSub(Plus(x), SMul(SInt(n), Pio2_1)), SMul(SInt(n), Pio2_1t))

RemPio2Near(x, z) ==
    (CASE z = z -> IF ~(MaxBit(x) = 0 /\ Top20(x) = 598523)
               THEN Pio2Pair(1, z, Pio2_1t)
               ELSE Pio2Pair(1, SSub(z, Pio2_2), Pio2_2t))

\* x - n * pi/2 = y0 + y1 for pi/4 < x < 2 pi, with pi/2 taken in pieces
\* of 33 bits: one piece where nothing cancels, up to three where x is
\* close to a multiple of pi/2.
RemPio2(x) ==
    IF DLt(x, Binary64(1, 186748, 0, 0))
    THEN RemPio2Near(x, SSub(Plus(x), Pio2_1))
    ELSE RemPio2Far(x, IntOf(Floor(FAdd(FMul(x, InvPio2.mag), {-1}))))

CosQuadrant(p) ==
    (CASE p = p -> CASE p.n % 4 = 0 -> KernelCos(p.y0, p.y1)
                 [] p.n % 4 = 1 -> SNeg(KernelSin(p.y0, p.y1))
                 [] p.n % 4 = 2 -> SNeg(KernelCos(p.y0, p.y1))
                 [] OTHER       -> KernelSin(p.y0, p.y1))

MathCos(a) ==
    IF SIsNaN(a) \/ a.mag = Infinity THEN Plus(NaN)
    ELSE IF DLt(a.mag, Binary64(-1, 598524, 0, 0)) THEN KernelCos(Plus(a.mag), Plus({}))
    ELSE CosQuadrant(RemPio2(a.mag))

(***************************************************************************)
(* class SeededRandom                                                      *)
(***************************************************************************)
\* 1812433253 = 0x6C078965
SeedMultiplier == Word(27655, 35173)

\* next(): the state after the call.
SeededRandom_next(st) ==
    LET a  == st.s0
        b  == st.s1
        x1 == Xor(a, Shl(a, 23))
        x2 == Xor(x1, Ushr(x1, 17))
        x3 == Xor(x2, b)
        x4 == Xor(x3, Ushr(b, 26))
    IN  [s0 |-> b, s1 |-> x4]

\* this.s0 / 4294967296 without the `>>> 0`: s0 read as the signed 32-bit
\* integer the xor left in it.
SeededRandom_value_signed(st) ==
    [hi |-> IF 31 \in st.s0 THEN Hi(st.s0) - 65536 ELSE Hi(st.s0), lo |-> Lo(st.s0)]

\* The value next() returns, (this.s0 >>> 0) / 4294967296, as the halves of
\* its numerator over 2^32.
SeededRandom_value(st) == [hi |-> Hi(st.s0), lo |-> Lo(st.s0)]

\* n calls of next(), the first half of them first.
RECURSIVE WarmUp(_, _)
WarmUp(st, n) ==
    (CASE st = st -> CASE n = 0 -> st
                  [] n = 1 -> SeededRandom_next(st)
                  [] OTHER -> WarmUp(WarmUp(st, n \div 2), n - n \div 2))

WarmUpCalls == 20

\* The seed state without the `+ 1` of the second word.
SeededRandom_seedState_noIncrement(seed) ==
    [s0 |-> ToUint32(seed), s1 |-> ToUint32(FMul(seed, SeedMultiplier))]

\* The state new SeededRandom(seed) starts from, before the warm-up.
SeededRandom_seedState(seed) ==
    [s0 |-> ToUint32(seed),
     s1 |-> ToUint32(FAdd(FMul(seed, SeedMultiplier), Num(1)))]

\* new SeededRandom(seed)
SeededRandom_constructor(seed) == WarmUp(SeededRandom_seedState(seed), WarmUpCalls)

(***************************************************************************)
(* The primitive samplers.  Arguments and results are signed doubles; a    *)
(* uniform draw is the double (s0 >>> 0) / 4294967296.                     *)
(***************************************************************************)
\* The number a draw stands for.
Draw(v) == Plus(DShift(Word(v.hi, v.lo), -32))

sampleUniform(min, max, u) == SAdd(min, SMul(u, SSub(max, min)))

Square(x) == SMul(x, x)

sampleLinearDecreasing(min, max, u) ==
    SSub(max, MathSqrt(SMul(Square(SSub(max, min)), SSub(One, u))))

sampleLinearIncreasing(min, max, u) ==
    SAdd(min, SMul(SSub(max, min), MathSqrt(u)))

TwoPi == Plus(Binary64(2, 598523, 21572, 11544))

boxMuller(u1, u2) ==
    SMul(MathSqrt(SMul(Minus(Num(2)), MathLog(u1))), MathCos(SMul(TwoPi, u2)))

MaxAttempts == 100

\* One iteration of the rejection loop: two draws, a candidate, the test.
\* st.rng is the generator, st.done tells that a candidate was accepted,
\* st.value is that candidate and st.attempts the number of iterations made.
RejectionTest(rng, attempts, min, max, sample) ==
    (CASE sample = sample -> [rng |-> rng, done |-> SLe(min, sample) /\ SLe(sample, max),
                     value |-> sample, attempts |-> attempts])

RejectionDrawn(r1, r2, attempts, min, max, mean, std) ==
    (CASE r2 = r2 -> RejectionTest(r2, attempts, min, max,
                    SAdd(mean, SMul(boxMuller(Draw(SeededRandom_value(r1)),
                                              Draw(SeededRandom_value(r2))), std))))

RejectionFirst(r1, attempts, min, max, mean, std) ==
    (CASE r1 = r1 -> RejectionDrawn(r1, SeededRandom_next(r1), attempts, min, max, mean, std))

RejectionAttempt(st, min, max, mean, std) ==
    RejectionFirst(SeededRandom_next(st.rng), st.attempts + 1, min, max, mean, std)

\* n iterations of the rejection loop, the first half of them first; the
\* loop is left as soon as a candidate is accepted.
RECURSIVE RejectionLoop(_, _, _, _, _, _)
RejectionLoop(st, min, max, mean, std, n) ==
    IF st.done THEN st
    ELSE IF n = 1 THEN RejectionAttempt(st, min, max, mean, std)
    ELSE RejectionLoop(RejectionLoop(st, min, max, mean, std, n \div 2),
                       min, max, mean, std, n - n \div 2)

\* The fallback without the clamp: the mean itself.
TruncatedNormalResult_unclamped(min, max, mean, st) ==
    [rng |-> st.rng, attempts |-> st.attempts, accepted |-> st.done,
     value |-> IF st.done THEN st.value ELSE mean]

TruncatedNormalResult(min, max, mean, st) ==
    (CASE st = st -> [rng      |-> st.rng,
                 attempts |-> st.attempts,
                 accepted |-> st.done,
                 value    |-> IF st.done THEN st.value
                              ELSE MathMax(min, MathMin(max, mean))])

TruncatedNormalStd(min, max, halfRange) ==
    IF SLt(Plus({}), halfRange) THEN halfRange ELSE SDiv(SSub(max, min), Plus(Num(4)))

TruncatedNormalAround(min, max, mean, std, rng) ==
    (CASE <<mean, std>> = <<mean, std>> ->
        TruncatedNormalResult(min, max, mean,
            RejectionLoop([rng |-> rng, done |-> FALSE, value |-> mean, attempts |-> 0],
                          min, max, mean, std, MaxAttempts)))

\* The sample, the generator after the call and the attempts made.
sampleTruncatedNormal(min, max, expectedMin, expectedMax, rng) ==
    TruncatedNormalAround(min, max, SDiv(SAdd(expectedMin, expectedMax), Two),
        TruncatedNormalStd(min, max, SDiv(SSub(expectedMax, expectedMin), Two)), rng)

\* The drop-percentage zones of the auto-shaped engine.
F1 == SDiv(Plus(Num(5)), Plus(Num(45)))
F2 == SDiv(Plus(Num(20)), Plus(Num(45)))
PLATEAU_FRACTION == SDiv(Two, Plus(Num(15)))
W_A == Half
W_B == Plus(Binary64(-2, 629145, 39321, 39322))
W_C == Plus(Binary64(-4, 629145, 39321, 39322))

sampleZoneA(z0, z1, u) == SAdd(z0, SMul(SSub(z1, z0), MathSqrt(u)))

ZoneBDecline(z2, declineWidth, uNorm) ==
    SSub(z2, MathSqrt(SMul(SMul(declineWidth, declineWidth), SSub(One, uNorm))))

ZoneBPick(z1, z2, u, plateauWidth, declineWidth, plateauWeight) ==
    (CASE plateauWeight = plateauWeight ->
        IF SLt(u, plateauWeight)
        THEN SAdd(z1, SMul(SDiv(u, plateauWeight), plateauWidth))
        ELSE ZoneBDecline(z2, declineWidth,
                          SDiv(SSub(u, plateauWeight), SSub(One, plateauWeight))))

ZoneBWidths(z1, z2, u, plateauWidth, declineWidth) ==
    (CASE <<plateauWidth, declineWidth>> = <<plateauWidth, declineWidth>> ->
        ZoneBPick(z1, z2, u, plateauWidth, declineWidth,
                  SDiv(plateauWidth, SAdd(plateauWidth, SMul(Half, declineWidth)))))

ZoneBPlateau(z1, z2, u, plateauEnd) ==
    (CASE plateauEnd = plateauEnd ->
        ZoneBWidths(z1, z2, u, SSub(plateauEnd, z1), SSub(z2, plateauEnd)))

sampleZoneB(z1, z2, u) ==
    ZoneBPlateau(z1, z2, u, SAdd(z1, SMul(PLATEAU_FRACTION, SSub(z2, z1))))

DecayRate == 8

ZoneCNormFactor(k, range) == SSub(One, MathExp(SMul(SNeg(k), range)))
ZoneCSample(k, u, normFactor) == SDiv(SNeg(MathLog(SSub(One, SMul(u, normFactor)))), k)
ZoneCClamp(z2, z3, sample) == (CASE sample = sample -> MathMin(MathMax(SAdd(z2, sample), z2), z3))
ZoneCFrom(z2, z3, u, k, normFactor) ==
    (CASE normFactor = normFactor -> ZoneCClamp(z2, z3, ZoneCSample(k, u, normFactor)))

sampleZoneC(z2, z3, u) ==
    ZoneCFrom(z2, z3, u, Plus(Num(DecayRate)),
              ZoneCNormFactor(Plus(Num(DecayRate)), SSub(z3, z2)))

NarrowRange == Plus(Binary64(-14, 669410, 60188, 17197))

DropZone(pMin, pMax, u1, u2, z1, z2) ==
    IF SLt(u1, W_A) THEN sampleZoneA(pMin, z1, u2)
    ELSE IF SLt(u1, SAdd(W_A, W_B)) THEN sampleZoneB(z1, z2, u2)
    ELSE sampleZoneC(z2, pMax, u2)

DropOver(pMin, pMax, u1, u2, W) ==
    (CASE W = W -> IF SLt(W, NarrowRange) THEN SAdd(pMin, SMul(u2, W))
               ELSE DropZone(pMin, pMax, u1, u2,
                             SAdd(pMin, SMul(F1, W)), SAdd(pMin, SMul(F2, W))))

sampleDropPercentage(pMin, pMax, u1, u2) == DropOver(pMin, pMax, u1, u2, SSub(pMax, pMin))

\* The samplers of the earlier auto-shaped engine.
LogUniformBetween(logMin, logMax, u) ==
    (CASE logMin = logMin -> MathExp(SAdd(logMin, SMul(u, SSub(logMax, logMin)))))

sampleLogUniform(min, max, u) == LogUniformBetween(MathLog(min), MathLog(max), u)

ModeFraction == Plus(Binary64(-3, 629145, 39321, 39322))

TriangularAround(min, max, u, mode) ==
    (CASE mode = mode ->
        IF SLt(u, SDiv(SSub(mode, min), SSub(max, min)))
        THEN SAdd(min, MathSqrt(SMul(SMul(u, SSub(max, min)), SSub(mode, min))))
        ELSE SSub(max, MathSqrt(SMul(SMul(SSub(One, u), SSub(max, min)),
                                     SSub(max, mode)))))

sampleTriangularAutoMode(min, max, u) ==
    TriangularAround(min, max, u, SAdd(min, SMul(ModeFraction, SSub(max, min))))

(***************************************************************************)
(* JavaScript objects are records; a property that is absent (undefined)   *)
(* is a field the record does not have.  A comparison with undefined is    *)
(* false, as in JavaScript (undefined converts to NaN).                    *)
(***************************************************************************)
Has(o, f) == f \in DOMAIN o
Without(o, f) == [g \in (DOMAIN o) \ {f} |-> o[g]]

\* o.f <= c, o.f < c, o.f > c, and the comparisons of two properties.
LeC(o, f, c) == Has(o, f) /\ o[f] <= c
LtC(o, f, c) == Has(o, f) /\ o[f] < c
GtC(o, f, c) == Has(o, f) /\ o[f] > c
GeC(o, f, c) == Has(o, f) /\ o[f] >= c
LeP(o, f, g) == Has(o, f) /\ Has(o, g) /\ o[f] <= o[g]
LtP(o, f, g) == Has(o, f) /\ Has(o, g) /\ o[f] < o[g]
GtP(o, f, g) == Has(o, f) /\ Has(o, g) /\ o[f] > o[g]

\* errors.push(e) when the condition holds.
PushIf(cond, e) == IF cond THEN <<e>> ELSE <<>>

\* What a call does: it returns a value or throws.
Return(v) == [kind |-> "return", value |-> v]
Throw(name) == [kind |-> "throw", name |-> name]

MinSimulations == 1000
MaxDropPct == 100

(***************************************************************************)
(* validateParams (the auto-shaped engine)                                 *)
(***************************************************************************)
Err(field, message) == [field |-> field, message |-> message]

\* The numSimulations check with `<=` for `<`.
NumSimulationsError_offByOne(params) ==
    PushIf(LeC(params, "numSimulations", MinSimulations),
           Err("numSimulations", "Simulations must be at least 1,000"))

NumSimulationsError(params) ==
    PushIf(LtC(params, "numSimulations", MinSimulations),
           Err("numSimulations", "Simulations must be at least 1,000"))

validateParams(params) ==
    Return(
        PushIf(LeC(params, "nftSupply", 0),
               Err("nftSupply", "NFT supply must be greater than 0"))
     \o PushIf(LeC(params, "fdvMinM", 0),
               Err("fdvMinM", "FDV Min must be greater than 0"))
     \o PushIf(LeC(params, "fdvMaxM", 0),
               Err("fdvMaxM", "FDV Max must be greater than 0"))
     \o PushIf(LeP(params, "fdvMaxM", "fdvMinM"),
               Err("fdvMaxM", "FDV Max must be greater than FDV Min"))
     \o PushIf(LeC(params, "dropMinPct", 0),
               Err("dropMinPct", "Drop% Min must be greater than 0"))
     \o PushIf(LeC(params, "dropMaxPct", 0) \/ GtC(params, "dropMaxPct", MaxDropPct),
               Err("dropMaxPct", "Drop% Max must be between 0 and 100"))
     \o PushIf(LeP(params, "dropMaxPct", "dropMinPct"),
               Err("dropMaxPct", "Drop% Max must be greater than Drop% Min"))
     \o NumSimulationsError(params))

(***************************************************************************)
(* validateAdvancedParams (the user-defined-ranges engine)                 *)
(***************************************************************************)
RErr(field, range, message) ==
    [field |-> field, rangeId |-> range.id, message |-> message]

\* The check of a predictionCentric range's expected sub-range.
ExpectedErrors(field, range) ==
    IF range.distributionType # "predictionCentric" THEN <<>>
    ELSE IF ~Has(range, "expectedMin") \/ ~Has(range, "expectedMax")
    THEN <<RErr(field, range, "Expected range is required for Prediction-Centric")>>
    ELSE PushIf(range.expectedMin < range.min \/ range.expectedMax > range.max,
                RErr(field, range, "Expected range must be within the main range"))
      \o PushIf(range.expectedMax <= range.expectedMin,
                RErr(field, range, "Expected Max must be greater than Expected Min"))

\* The loop body with the FDV minimum required to be positive.
FdvRangeErrors_positive(range) ==
       PushIf(range.min <= 0, RErr("fdvRanges", range, "FDV Min must be non-negative"))
    \o PushIf(range.max <= range.min,
              RErr("fdvRanges", range, "FDV Max must be greater than Min"))
    \o ExpectedErrors("fdvRanges", range)

\* The body of the loop over params.fdvRanges.
FdvRangeErrors(range) ==
       PushIf(range.min < 0, RErr("fdvRanges", range, "FDV Min must be non-negative"))
    \o PushIf(range.max <= range.min,
              RErr("fdvRanges", range, "FDV Max must be greater than Min"))
    \o ExpectedErrors("fdvRanges", range)

\* The body of the loop over params.dropRanges.
DropRangeErrors(range) ==
       PushIf(range.min <= 0, RErr("dropRanges", range, "Drop% Min must be greater than 0"))
    \o PushIf(range.max > MaxDropPct,
              RErr("dropRanges", range, "Drop% Max cannot exceed 100"))
    \o PushIf(range.max <= range.min,
              RErr("dropRanges", range, "Drop% Max must be greater than Min"))
    \o ExpectedErrors("dropRanges", range)

RECURSIVE ForEachRange(_, _, _)
ForEachRange(Body(_), ranges, i) ==
    IF i > Len(ranges) THEN <<>>
    ELSE Body(ranges[i]) \o ForEachRange(Body, ranges, i + 1)

validateAdvancedParams(params) ==
    \* params.fdvRanges.length and params.dropRanges.length: reading a
    \* property of undefined throws a TypeError.
    IF ~Has(params, "fdvRanges") \/ ~Has(params, "dropRanges") THEN Throw("TypeError")
    ELSE Return(
        PushIf(LeC(params, "nftSupply", 0),
               [field |-> "nftSupply", message |-> "NFT supply must be greater than 0"])
     \o PushIf(Len(params.fdvRanges) = 0,
               [field |-> "fdvRanges", message |-> "At least one FDV range is required"])
     \o PushIf(Len(params.dropRanges) = 0,
               [field |-> "dropRanges",
                message |-> "At least one Airdrop % range is required"])
     \o ForEachRange(FdvRangeErrors, params.fdvRanges, 1)
     \o ForEachRange(DropRangeErrors, params.dropRanges, 1)
     \o PushIf(LtC(params, "numSimulations", MinSimulations),
               [field |-> "numSimulations",
                message |-> "Simulations must be at least 1,000"]))

(***************************************************************************)
(* Statistics: percentile, createHistogram, calcThresholdProbs.            *)
(* Arrays are sequences (index i of the code is index i + 1 here).         *)
(***************************************************************************)
\* A read past the end of an array gives undefined, which arithmetic takes as
\* NaN.
Undefined == [kind |-> "undefined"]
At(array, i) == IF 0 <= i /\ i < Len(array) THEN array[i + 1] ELSE Undefined
ToNumber(v) == IF v = Undefined THEN Plus(NaN) ELSE v

\* Math.floor and Math.ceil, and the integer a whole number stands for.
SFloor(a) == IF a.neg THEN Minus(Ceil(a.mag)) ELSE Plus(Floor(a.mag))
SCeil(a) == IF a.neg THEN Minus(Floor(a.mag)) ELSE Plus(Ceil(a.mag))
SIntOf(a) == IF a.neg THEN 0 - IntOf(a.mag) ELSE IntOf(a.mag)

\* Float64Array.prototype.sort(): ascending numeric order, NaN last, as a
\* merge sort.  SortsBefore is the order; PlaceIn(b, v, strict, 0, Len(b)) is
\* the number of elements of the sorted array b that v comes after: those
\* that sort before v and, unless strict, those equal to it.
SortsBefore(a, b) == ~SIsNaN(a) /\ (SIsNaN(b) \/ SLt(a, b))

RECURSIVE PlaceIn(_, _, _, _, _)
PlaceIn(b, v, strict, left, right) ==
    IF left < right
    THEN LET mid == (left + right) \div 2
         IN  IF (IF strict THEN SortsBefore(b[mid + 1], v)
                 ELSE ~SortsBefore(v, b[mid + 1]))
             THEN PlaceIn(b, v, strict, mid + 1, right)
             ELSE PlaceIn(b, v, strict, left, mid)
    ELSE left

\* The merged array, a[i] going to position posA[i] and b[j] to posB[j].
MergedAt(a, b, posA, posB) ==
    (CASE <<posA, posB>> = <<posA, posB>> ->
        [k \in 1..(Len(a) + Len(b)) |->
            IF \E i \in 1..Len(a) : posA[i] = k
            THEN a[CHOOSE i \in 1..Len(a) : posA[i] = k]
            ELSE b[CHOOSE j \in 1..Len(b) : posB[j] = k]])

Merge(a, b) ==
    (CASE <<a, b>> = <<a, b>> ->
        MergedAt(a, b,
                 [i \in 1..Len(a) |-> i + PlaceIn(b, a[i], TRUE, 0, Len(b))],
                 [j \in 1..Len(b) |-> j + PlaceIn(a, b[j], FALSE, 0, Len(a))]))

\* values[lo .. hi] sorted.
RECURSIVE SortBetween(_, _, _)
SortBetween(values, lo, hi) ==
    CASE lo > hi -> <<>>
      [] lo = hi -> <<values[lo]>>
      [] OTHER   -> Merge(SortBetween(values, lo, (lo + hi) \div 2),
                          SortBetween(values, (lo + hi) \div 2 + 1, hi))

Float64Array_sort(values) == SortBetween(values, 1, Len(values))

\* The percentiles the run functions ask for, and p / 100 for each.
Percentiles == {5, 10, 25, 50, 75, 90, 95}
PercentOver100 == [p \in 0..100 |-> SDiv(SInt(p), SInt(100))]

\* percentile without the interpolation: the value at the lower index.
percentile_lower(sorted, p) ==
    At(sorted, SIntOf(SFloor(SMul(PercentOver100[p], SInt(Len(sorted) - 1)))))

percentile(sorted, p) ==
    LET n      == Len(sorted)
        rank   == SMul(PercentOver100[p], SInt(n - 1))
        lower  == SIntOf(SFloor(rank))
        upper  == SIntOf(SCeil(rank))
        weight == SSub(rank, SInt(lower))
    IN  IF upper >= n THEN At(sorted, n - 1)
        ELSE SAdd(SMul(ToNumber(At(sorted, lower)), SSub(One, weight)),
                  SMul(ToNumber(At(sorted, upper)), weight))

\* let sum = 0; for (...) sum += values[i]: the sum after the elements lo to
\* hi have been added to sum, the first half of them first.
RECURSIVE SumFrom(_, _, _, _)
SumFrom(sum, values, lo, hi) ==
    (CASE sum = sum -> CASE lo > hi -> sum
                   [] lo = hi -> SAdd(sum, values[lo])
                   [] OTHER   -> SumFrom(SumFrom(sum, values, lo, (lo + hi) \div 2),
                                         values, (lo + hi) \div 2 + 1, hi))

SumValues(values, i) == SumFrom(Plus({}), values, 1, i)

\* The stats object of runSimpleSimulation and runAdvancedSimulation.
ComputeStats(values, sorted) ==
    [mean   |-> SDiv(SumValues(values, Len(values)), SInt(Len(values))),
     median |-> percentile(sorted, 50),
     p5     |-> percentile(sorted, 5),
     p10    |-> percentile(sorted, 10),
     p25    |-> percentile(sorted, 25),
     p75    |-> percentile(sorted, 75),
     p90    |-> percentile(sorted, 90),
     p95    |-> percentile(sorted, 95),
     min    |-> At(sorted, 0),
     max    |-> At(sorted, Len(sorted) - 1)]

\* function computeStdDev(values, mean): sumSq += diff * diff for the elements
\* lo to hi, the first half of them first, then Math.sqrt(sumSq / length).
RECURSIVE SumSqFrom(_, _, _, _, _)
SumSqFrom(sumSq, values, mean, lo, hi) ==
    (CASE sumSq = sumSq ->
        CASE lo > hi -> sumSq
          [] lo = hi -> SAdd(sumSq, SMul(SSub(values[lo], mean), SSub(values[lo], mean)))
          [] OTHER   -> SumSqFrom(SumSqFrom(sumSq, values, mean, lo, (lo + hi) \div 2),
                                  values, mean, (lo + hi) \div 2 + 1, hi))

computeStdDev(values, mean) ==
    MathSqrt(SDiv(SumSqFrom(Plus({}), values, mean, 1, Len(values)), SInt(Len(values))))

\* The stats object of runSimulation, which reports stdDev as well.
WithStdDev(st, values) ==
    (CASE st = st -> [f \in DOMAIN st \cup {"stdDev"} |->
                     IF f = "stdDev" THEN computeStdDev(values, st.mean) ELSE st[f]])
ComputeStatsWithStdDev(values, sorted) == WithStdDev(ComputeStats(values, sorted), values)

\* The stats object the run function fn builds.
StatsOf(fn, values, sorted) ==
    IF fn = "runSimulation" THEN ComputeStatsWithStdDev(values, sorted)
    ELSE ComputeStats(values, sorted)

\* numBins, which no caller passes: 40 in the engines of the simulator, 50
\* in the fixed-formula engine.
NumBins == 40
FixedNumBins == 50
NumBinsOf(fn) == IF fn = "runSimulation" THEN FixedNumBins ELSE NumBins

HistogramFloor == SDiv(SInt(1), SInt(100))

Ratio(num, den) == [num |-> num, den |-> den]

\* The loop over values: what happens to one value.  It is skipped below
\* minVal; otherwise bins[binIndex].count++ counts it in the bin of its index
\* or, when the index is NaN or negative, finds no bin.
Skipped == [kind |-> "skipped"]
IndexNaN == [kind |-> "NaN"]
IndexBelow == [kind |-> "negative"]
Bin(index) == [kind |-> "bin", index |-> index]

Indexed(binIndex) ==
    IF SIsNaN(binIndex) THEN IndexNaN
    ELSE IF binIndex.neg THEN IndexBelow
    ELSE Bin(IntOf(binIndex.mag))

\* Math.min(Math.floor((Math.log10(val) - logMin) / binWidth), numBins - 1)
BinIndex(val, minVal, logMin, binWidth, numBins) ==
    IF SLt(val, minVal) THEN Skipped
    ELSE Indexed(MathMin(SFloor(SDiv(SSub(MathLog10(val), logMin), binWidth)),
                         SInt(numBins - 1)))

\* bins[binIndex].count++ for the first i values: the counts of the bins.
CountInto(bins, idx, i) ==
    [b \in DOMAIN bins |-> bins[b] + Cardinality({k \in 1..i : idx[k] = Bin(b)})]

\* The bins after the loop over values, idx[i] being what happened to
\* values[i], and the densities.
HistogramOf(idx, n, numBins) ==
    (CASE idx = idx ->
        IF \E i \in 1..n : idx[i] \in {IndexNaN, IndexBelow}
        THEN Throw("TypeError")
        ELSE Return([b \in 0..(numBins - 1) |->
                        [count |-> CountInto([c \in 0..(numBins - 1) |-> 0],
                                             idx, n)[b],
                         density |-> Ratio(CountInto([c \in 0..(numBins - 1) |-> 0],
                                                     idx, n)[b], n)]]))

\* The statements of createHistogram after minVal, logMin and binWidth.
HistogramOver(values, minVal, logMin, binWidth, numBins) ==
    (CASE binWidth = binWidth ->
        HistogramOf([i \in 1..Len(values) |->
                        BinIndex(values[i], minVal, logMin, binWidth, numBins)],
                    Len(values), numBins))

HistogramFrom(values, minVal, logMin, logMax, numBins) ==
    (CASE logMin = logMin ->
        HistogramOver(values, minVal, logMin,
                      SDiv(SSub(logMax, logMin), SInt(numBins)), numBins))

HistogramBetween(values, minVal, maxVal, numBins) ==
    (CASE minVal = minVal ->
        HistogramFrom(values, minVal, MathLog10(minVal), MathLog10(maxVal), numBins))

\* createHistogram(values): the bins, numbered from 0, each with its count and
\* its density (binStart and binEnd are left out); bins[NaN].count++ throws a
\* TypeError.
createHistogram(values, numBins) ==
    LET sorted == Float64Array_sort(values)
    IN  HistogramBetween(values,
                         MathMax(ToNumber(At(sorted, 0)), HistogramFloor),
                         ToNumber(At(sorted, Len(sorted) - 1)), numBins)

\* The loop with `<=` for `<`: it stops at the first value above the threshold.
RECURSIVE BinarySearch_inclusive(_, _, _, _)
BinarySearch_inclusive(sorted, threshold, left, right) ==
    IF left < right
    THEN LET mid == (left + right) \div 2
         IN  IF SLe(sorted[mid + 1], threshold)
             THEN BinarySearch_inclusive(sorted, threshold, mid + 1, right)
             ELSE BinarySearch_inclusive(sorted, threshold, left, mid)
    ELSE left

\* The while loop of calcThresholdProbs: the final value of left.
RECURSIVE BinarySearch(_, _, _, _)
BinarySearch(sorted, threshold, left, right) ==
    IF left < right
    THEN LET mid == (left + right) \div 2
         IN  IF SLt(sorted[mid + 1], threshold)
             THEN BinarySearch(sorted, threshold, mid + 1, right)
             ELSE BinarySearch(sorted, threshold, left, mid)
    ELSE left

\* left / n for (n - left) / n: the fraction of values below the threshold.
calcThresholdProbs_below(sorted, thresholds) ==
    LET n == Len(sorted)
    IN  [t \in {thresholds[i] : i \in 1..Len(thresholds)} |->
            Ratio(BinarySearch(sorted, t, 0, n), n)]

calcThresholdProbs(sorted, thresholds) ==
    LET n == Len(sorted)
    IN  [t \in {thresholds[i] : i \in 1..Len(thresholds)} |->
            Ratio(n - BinarySearch(sorted, t, 0, n), n)]

(***************************************************************************)
(* The mixture composers.  calculateFDVZones builds the FDV zones of the   *)
(* auto-shaped engine and their cumulative weights; calculateRangeWeights  *)
(* and getCumulativeWeights do the same for a list of custom ranges.       *)
(* Lists are sequences; a JavaScript index i is index i + 1 here.          *)
(***************************************************************************)
\* The number n / d as the literal is read: the nearest double.
Decimal(n, d) == SDiv(SInt(n), SInt(d))

Zero == Plus({})
MathAbs(a) == [mag |-> a.mag, neg |-> FALSE]

Million == SInt(1000000)
zoneABandwidth == SInt(30000000)
tailThreshold == SInt(200000000)
tailCap == SInt(300000000)
baseWA == Decimal(75, 100)
baseWB == Decimal(24, 100)
baseWC == Decimal(1, 100)
WeightSlack == Decimal(1, 1000)

FDVZone(min, max, weight, type) ==
    [min |-> min, max |-> max, weight |-> weight, type |-> type]

\* The zones pushed for the range [fdvMin, fdvMax], before re-normalization.
PushedZones(fdvMin, fdvMax, zoneAMax, zoneBMax) ==
    (IF SLt(fdvMin, zoneAMax)
     THEN <<FDVZone(fdvMin, zoneAMax, baseWA, "uniform")>> ELSE <<>>)
    \o (IF SLt(zoneAMax, zoneBMax)
        THEN <<FDVZone(zoneAMax, zoneBMax, baseWB, "linearDecreasing")>> ELSE <<>>)
    \o (IF SLt(tailThreshold, fdvMax)
        THEN <<FDVZone(tailThreshold, MathMin(fdvMax, tailCap), baseWC, "uniform")>>
        ELSE <<>>)

ZonesOf(fdvMin, fdvMax) ==
    PushedZones(fdvMin, fdvMax, MathMin(SAdd(fdvMin, zoneABandwidth), fdvMax),
                IF SLe(tailThreshold, fdvMax) THEN MathMin(fdvMax, tailThreshold)
                ELSE fdvMax)

\* zones.reduce((sum, z) => sum + z.weight, 0), over the first n zones.
RECURSIVE SumWeights(_, _)
SumWeights(zones, n) ==
    IF n = 0 THEN Zero ELSE SAdd(SumWeights(zones, n - 1), zones[n].weight)

\* The zones with the re-normalization left out.
Renormalized_never(zones, totalWeight) == zones

\* Re-normalize weights if any zone is missing.
Renormalized(zones, totalWeight) ==
    IF SLt(Zero, totalWeight) /\ SLt(WeightSlack, MathAbs(SSub(totalWeight, One)))
    THEN [i \in 1..Len(zones) |-> [zones[i] EXCEPT !.weight = SDiv(@, totalWeight)]]
    ELSE zones

\* sum += w for the first n weights.
RECURSIVE RunningSum(_, _)
RunningSum(weights, n) ==
    IF n = 0 THEN Zero ELSE SAdd(RunningSum(weights, n - 1), weights[n])

getCumulativeWeights(weights) == [i \in 1..Len(weights) |-> RunningSum(weights, i)]

WithCumulativeWeights(zones) ==
    [zones |-> zones,
     cumulativeWeights |-> getCumulativeWeights([i \in 1..Len(zones) |-> zones[i].weight])]

FDVZonesOf(zones) ==
    WithCumulativeWeights(Renormalized(zones, SumWeights(zones, Len(zones))))

calculateFDVZones(fdvMinM, fdvMaxM) ==
    FDVZonesOf(ZonesOf(SMul(fdvMinM, Million), SMul(fdvMaxM, Million)))

\* widths.reduce((a, b) => a + b, 0), over the first n ranges.
RECURSIVE SumWidths(_, _)
SumWidths(ranges, n) ==
    IF n = 0 THEN Zero
    ELSE SAdd(SumWidths(ranges, n - 1), SSub(ranges[n].max, ranges[n].min))

RangeWeights(ranges, totalWidth) ==
    IF totalWidth.mag = {}
    THEN [i \in 1..Len(ranges) |-> SDiv(One, SInt(Len(ranges)))]
    ELSE [i \in 1..Len(ranges) |-> SDiv(SSub(ranges[i].max, ranges[i].min), totalWidth)]

calculateRangeWeights(ranges) == RangeWeights(ranges, SumWidths(ranges, Len(ranges)))

(***************************************************************************)
(* The mixture samplers.                                                   *)
(***************************************************************************)
\* The first index i >= from (counted from 0) with u <= cumulativeWeights[i];
\* the length of the table when there is none.
RECURSIVE FirstCovering(_, _, _)
FirstCovering(cumulativeWeights, u, from) ==
    IF from >= Len(cumulativeWeights) THEN Len(cumulativeWeights)
    ELSE IF SLe(u, cumulativeWeights[from + 1]) THEN from
    ELSE FirstCovering(cumulativeWeights, u, from + 1)

\* The loop of sampleFDVMixture: zoneIndex stays 0 when no entry covers u1.
FDVZoneIndex(cumulativeWeights, u1) ==
    IF FirstCovering(cumulativeWeights, u1, 0) = Len(cumulativeWeights) THEN 0
    ELSE FirstCovering(cumulativeWeights, u1, 0)

FDVZoneSample(zone, u2) ==
    IF zone.type = "uniform" THEN SAdd(zone.min, SMul(u2, SSub(zone.max, zone.min)))
    ELSE sampleLinearDecreasing(zone.min, zone.max, u2)

\* sampleFDVMixture(fdvZones, u1, u2); with no zone, zones[0] is undefined and
\* reading its type throws.
sampleFDVMixture(fdvZones, u1, u2) ==
    IF Len(fdvZones.zones) = 0 THEN Throw("TypeError")
    ELSE Return(FDVZoneSample(fdvZones.zones[FDVZoneIndex(fdvZones.cumulativeWeights, u1) + 1],
                              u2))

selectRangeIndex(cumulativeWeights, u) ==
    IF FirstCovering(cumulativeWeights, u, 0) = Len(cumulativeWeights)
    THEN Len(cumulativeWeights) - 1
    ELSE FirstCovering(cumulativeWeights, u, 0)

\* The zone sampleDropPercentage selects for u1: 0 for A, 1 for B, 2 for C.
DropZoneIndex(u1) ==
    IF SLt(u1, W_A) THEN 0 ELSE IF SLt(u1, SAdd(W_A, W_B)) THEN 1 ELSE 2

\* The cumulative weights of the three Drop% zones.
DropCumulativeWeights == getCumulativeWeights(<<W_A, W_B, W_C>>)

(***************************************************************************)
(* The sampling loops of the run functions.  A generator is its state; a   *)
(* sampler that draws from it returns the state it leaves.                 *)
(***************************************************************************)
\* The value the call of next() that left the generator in state r returned.
Uniform(r) == Draw(SeededRandom_value(r))

\* range.expectedMin ?? range.min, range.expectedMax ?? range.max
ExpectedMinOf(range) == IF Has(range, "expectedMin") THEN range.expectedMin ELSE range.min
ExpectedMaxOf(range) == IF Has(range, "expectedMax") THEN range.expectedMax ELSE range.max

\* What sampleFromRange returns for a bell-curve range: t is the result of
\* sampleTruncatedNormal, called after the draw of u.
NormalSample(t) ==
    (CASE t = t -> [rng |-> t.rng, draws |-> 1 + 2 * t.attempts, value |-> t.value])

\* The switch of sampleFromRange; r is the generator after the draw of u.
RangeSample(range, min, max, r, scale) ==
    (CASE r = r ->
        CASE range.distributionType = "uniform" ->
                 [rng |-> r, draws |-> 1, value |-> sampleUniform(min, max, Uniform(r))]
          [] range.distributionType = "linearDecreasing" ->
                 [rng |-> r, draws |-> 1,
                  value |-> sampleLinearDecreasing(min, max, Uniform(r))]
          [] range.distributionType = "linearIncreasing" ->
                 [rng |-> r, draws |-> 1,
                  value |-> sampleLinearIncreasing(min, max, Uniform(r))]
          [] range.distributionType = "predictionCentric" ->
                 NormalSample(sampleTruncatedNormal(min, max,
                                                    SMul(ExpectedMinOf(range), scale),
                                                    SMul(ExpectedMaxOf(range), scale), r))
          [] OTHER ->
                 [rng |-> r, draws |-> 1, value |-> sampleUniform(min, max, Uniform(r))])

\* sampleFromRange(range, rng, scale): the generator after the call, the
\* number of draws made and the sample.
sampleFromRange(range, rng, scale) ==
    RangeSample(range, SMul(range.min, scale), SMul(range.max, scale),
                SeededRandom_next(rng), scale)

\* The sample of the range selected, with the selection draw counted.
SelectedSample(s) ==
    (CASE s = s -> [kind |-> "return", rng |-> s.rng, draws |-> 1 + s.draws, value |-> s.value])

\* sampleFromRanges after the selection draw left the generator in state r;
\* with no range, ranges[-1] is undefined and reading its min throws.
SampleSelected(ranges, rangeIndex, r, scale) ==
    IF rangeIndex < 0 THEN [kind |-> "throw", name |-> "TypeError", rng |-> r, draws |-> 1]
    ELSE SelectedSample(sampleFromRange(ranges[rangeIndex + 1], r, scale))

SelectWith(ranges, cumulativeWeights, r, scale) ==
    (CASE r = r -> SampleSelected(ranges, selectRangeIndex(cumulativeWeights, Uniform(r)), r,
                              scale))

sampleFromRanges(ranges, cumulativeWeights, rng, scale) ==
    SelectWith(ranges, cumulativeWeights, SeededRandom_next(rng), scale)

\* One iteration of a sampling loop leaves: the generator, the draws side A
\* (FDV) and side B (Drop%) made, in that order, and the value computed or
\* the exception thrown.
Iteration(rng, a, b, outcome) == [rng |-> rng, a |-> a, b |-> b, outcome |-> outcome]

\* values[i] = (fdv * dropDecimal) / params.nftSupply
AdvancedValue(params, fdvM, dropPct) ==
    SDiv(SMul(SMul(fdvM, Million), SDiv(dropPct, SInt(100))), params.nftSupply)

AdvancedDrop(params, a, b) ==
    (CASE b = b -> IF b.kind = "throw" THEN Iteration(b.rng, a.draws, b.draws, Throw(b.name))
               ELSE Iteration(b.rng, a.draws, b.draws,
                              Return(AdvancedValue(params, a.value, b.value))))

AdvancedFdv(params, tables, a) ==
    (CASE a = a -> IF a.kind = "throw" THEN Iteration(a.rng, a.draws, 0, Throw(a.name))
               ELSE AdvancedDrop(params, a,
                                 sampleFromRanges(params.dropRanges, tables.dropCumulative,
                                                  a.rng, One)))

\* The body of the loop of runAdvancedSimulation.
AdvancedIteration(params, tables, rng) ==
    AdvancedFdv(params, tables,
                sampleFromRanges(params.fdvRanges, tables.fdvCumulative, rng, One))

\* values[i] = (fdv * dropPct) / params.nftSupply
SimpleValue(params, fdv, dropPct) == SDiv(SMul(fdv, dropPct), params.nftSupply)

SimpleSampled(params, tables, r3, r4, fdv) ==
    (CASE fdv = fdv ->
        IF fdv.kind = "throw" THEN Iteration(r4, 2, 2, fdv)
        ELSE Iteration(r4, 2, 2,
                       Return(SimpleValue(params, fdv.value,
                                          sampleDropPercentage(tables.pMin, tables.pMax,
                                                               Uniform(r3), Uniform(r4))))))

SimpleDrawn(params, tables, r1, r2, r3, r4) ==
    (CASE <<r1, r2, r3, r4>> = <<r1, r2, r3, r4>> ->
        SimpleSampled(params, tables, r3, r4,
                      sampleFDVMixture(tables.fdvZones, Uniform(r1), Uniform(r2))))

\* The body of the loop of runSimpleSimulation: u1 .. u4 are drawn first.
SimpleIteration(params, tables, rng) ==
    SimpleDrawn(params, tables, WarmUp(rng, 1), WarmUp(rng, 2), WarmUp(rng, 3),
                WarmUp(rng, 4))

(***************************************************************************)
(* The fixed-formula engine, runSimulation: FDV is a mixture of two        *)
(* log-uniform ranges, the drop fraction a mixture of a triangular main    *)
(* range and a uniform tail.                                               *)
(***************************************************************************)
sampleTriangular(min, mode, max, u) == TriangularAround(min, max, u, mode)

\* sampleFDV(params, rng), u1 and u2 being the two draws it takes.
sampleFDV(params, u1, u2) ==
    IF SLt(u1, params.fdvProbA)
    THEN sampleLogUniform(params.fdvMinA, params.fdvMaxA, u2)
    ELSE sampleLogUniform(params.fdvMinB, params.fdvMaxB, u2)

\* sampleDropPercentage(params, rng) of the fixed-formula engine, u1 and u2
\* being the two draws it takes.
sampleDropPercentageOf(params, u1, u2) ==
    IF SLt(u1, params.dropTailProb)
    THEN sampleUniform(params.dropTailMin, params.dropTailMax, u2)
    ELSE sampleTriangular(params.dropMin, params.dropMode, params.dropMax, u2)

FixedDrawn(params, r1, r2, r3, r4) ==
    (CASE <<r1, r2, r3, r4>> = <<r1, r2, r3, r4>> ->
        Iteration(r4, 2, 2,
                  Return(SimpleValue(params,
                                     sampleFDV(params, Uniform(r1), Uniform(r2)),
                                     sampleDropPercentageOf(params, Uniform(r3),
                                                            Uniform(r4))))))

\* The body of the loop of runSimulation: sampleFDV draws twice, then
\* sampleDropPercentage draws twice.
FixedIteration(params, tables, rng) ==
    FixedDrawn(params, WarmUp(rng, 1), WarmUp(rng, 2), WarmUp(rng, 3), WarmUp(rng, 4))

\* PRESETS[name].params
PRESETS ==
    [conservative |->
         [nftSupply |-> SInt(8888),
          fdvMinA |-> SMul(SInt(50), Million), fdvMaxA |-> SMul(SInt(150), Million),
          fdvProbA |-> Decimal(85, 100),
          fdvMinB |-> SMul(SInt(150), Million), fdvMaxB |-> SMul(SInt(300), Million),
          dropMin |-> Decimal(5, 1000), dropMode |-> Decimal(1, 100),
          dropMax |-> Decimal(2, 100),
          dropTailMin |-> Decimal(2, 100), dropTailMax |-> Decimal(3, 100),
          dropTailProb |-> Decimal(1, 10)],
     base |->
         [nftSupply |-> SInt(8888),
          fdvMinA |-> SMul(SInt(100), Million), fdvMaxA |-> SMul(SInt(500), Million),
          fdvProbA |-> Decimal(75, 100),
          fdvMinB |-> SMul(SInt(500), Million), fdvMaxB |-> SMul(SInt(1000), Million),
          dropMin |-> Decimal(1, 100), dropMode |-> Decimal(2, 100),
          dropMax |-> Decimal(4, 100),
          dropTailMin |-> Decimal(4, 100), dropTailMax |-> Decimal(6, 100),
          dropTailProb |-> Decimal(15, 100)],
     optimistic |->
         [nftSupply |-> SInt(8888),
          fdvMinA |-> SMul(SInt(300), Million), fdvMaxA |-> SMul(SInt(1000), Million),
          fdvProbA |-> Decimal(65, 100),
          fdvMinB |-> SMul(SInt(1000), Million), fdvMaxB |-> SMul(SInt(3000), Million),
          dropMin |-> Decimal(2, 100), dropMode |-> Decimal(4, 100),
          dropMax |-> Decimal(6, 100),
          dropTailMin |-> Decimal(6, 100), dropTailMax |-> Decimal(10, 100),
          dropTailProb |-> Decimal(2, 10)]]

(***************************************************************************)
(* The run functions up to the loop, and their anchors.                    *)
(***************************************************************************)
\* Every run takes the seed of the environment, given or not.
SeedOf_random(params, random) == random

\* A seed that depends on the number of simulations.
SeedOf_counted(params, random) ==
    IF Has(params, "seed")
    THEN ToUint32(DAdd(params.seed, Num(params.numSimulations)))
    ELSE random

\* params.seed ?? Math.floor(Math.random() * 2147483647): random is what the
\* right-hand side would give.
SeedOf(params, random) == IF Has(params, "seed") THEN params.seed ELSE random

DefaultThresholds == <<SInt(60), SInt(120), SInt(300)>>

\* The call with the Drop% bounds converted to decimals in place, in the
\* parameter object.
SimpleStart_scales(params, thresholds, seed) ==
    [params     |-> [params EXCEPT !.dropMinPct = SDiv(@, SInt(100)),
                                   !.dropMaxPct = SDiv(@, SInt(100))],
     thresholds |-> thresholds,
     seed       |-> seed,
     rng        |-> SeededRandom_constructor(seed),
     tables     |-> [pMin |-> SDiv(params.dropMinPct, SInt(100)),
                     pMax |-> SDiv(params.dropMaxPct, SInt(100)),
                     fdvZones |-> calculateFDVZones(params.fdvMinM, params.fdvMaxM)]]

\* The state of a call before its loop: the objects it was given, as the
\* statements before the loop leave them, and the locals they initialize.
SimpleStart(params, thresholds, seed) ==
    [params     |-> params,
     thresholds |-> thresholds,
     seed       |-> seed,
     rng        |-> SeededRandom_constructor(seed),
     tables     |-> [pMin |-> SDiv(params.dropMinPct, SInt(100)),
                     pMax |-> SDiv(params.dropMaxPct, SInt(100)),
                     fdvZones |-> calculateFDVZones(params.fdvMinM, params.fdvMaxM)]]

AdvancedStart(params, thresholds, seed) ==
    [params     |-> params,
     thresholds |-> thresholds,
     seed       |-> seed,
     rng        |-> SeededRandom_constructor(seed),
     tables     |-> [fdvCumulative |->
                         getCumulativeWeights(calculateRangeWeights(params.fdvRanges)),
                     dropCumulative |->
                         getCumulativeWeights(calculateRangeWeights(params.dropRanges))]]

\* runSimulation builds no table before its loop.
FixedStart(params, thresholds, seed) ==
    [params     |-> params,
     thresholds |-> thresholds,
     seed       |-> seed,
     rng        |-> SeededRandom_constructor(seed),
     tables     |-> <<>>]

\* Math.min(...xs) and Math.max(...xs) of the first n entries of a list.
RECURSIVE MinOf(_, _)
MinOf(xs, n) == IF n = 0 THEN Plus(Infinity) ELSE MathMin(MinOf(xs, n - 1), xs[n])
RECURSIVE MaxOf(_, _)
MaxOf(xs, n) == IF n = 0 THEN Minus(Infinity) ELSE MathMax(MaxOf(xs, n - 1), xs[n])

Mins(ranges) == [i \in 1..Len(ranges) |-> ranges[i].min]
Maxs(ranges) == [i \in 1..Len(ranges) |-> ranges[i].max]

SimpleAnchors(params, tables) ==
    [worstCase |-> SDiv(SMul(SMul(params.fdvMinM, Million), tables.pMin), params.nftSupply),
     bestCase  |-> SDiv(SMul(SMul(params.fdvMaxM, Million), tables.pMax), params.nftSupply)]

AdvancedAnchors(params) ==
    [worstCase |->
         SDiv(SMul(SMul(MinOf(Mins(params.fdvRanges), Len(params.fdvRanges)), Million),
                   SDiv(MinOf(Mins(params.dropRanges), Len(params.dropRanges)), SInt(100))),
              params.nftSupply),
     bestCase |->
         SDiv(SMul(SMul(MaxOf(Maxs(params.fdvRanges), Len(params.fdvRanges)), Million),
                   SDiv(MaxOf(Maxs(params.dropRanges), Len(params.dropRanges)), SInt(100))),
              params.nftSupply)]

FixedAnchors(params) ==
    [worstCase |-> SDiv(SMul(params.fdvMinA, params.dropMin), params.nftSupply),
     bestCase  |-> SDiv(SMul(MathMax(params.fdvMaxA, params.fdvMaxB),
                             MathMax(params.dropMax, params.dropTailMax)),
                        params.nftSupply)]

(***************************************************************************)
(* The PRNG on its own: construct from a seed, then call next().           *)
(***************************************************************************)
Seeds == {Word(0, 0), Word(0, 1), Word(0, 7), Word(0, 42), Word(1, 57920),
          Word(32768, 0), Word(65535, 65535)}

\* The parts of the state a specification does not exercise stay as they are
\* before anything is constructed or called.
Pending == [kind |-> "pending"]

PrngIdle == [seed |-> {}, st |-> [s0 |-> {}, s1 |-> {}], out |-> None, calls |-> 0]

VldIdle == [fn |-> "none", input |-> <<>>, params |-> <<>>, result |-> Pending]

StatsIdle == [pc |-> "idle", values |-> <<>>, thresholds |-> <<>>, sorted |-> <<>>,
              sorts |-> <<>>, stats |-> Pending, histogram |-> Pending,
              thresholdProbs |-> Pending]

SmpIdle == [fn |-> "none", min |-> Plus({}), max |-> Plus({}), args |-> <<>>,
            value |-> Pending]

UiIdle == [mode |-> "none"]

RunIdle == [fn |-> "none", pc |-> "idle", invocation |-> 0, input |-> <<>>,
            params |-> <<>>, thresholds |-> <<>>, seed |-> {},
            rng |-> [s0 |-> {}, s1 |-> {}], tables |-> <<>>, i |-> 0, calls |-> 0,
            draws |-> <<>>, values |-> <<>>, startTime |-> Plus({}),
            result |-> Pending, previous |-> Pending]

PrngInit ==
    /\ ui = UiIdle
    /\ \E seed \in Seeds :
           prng = [seed |-> seed, st |-> SeededRandom_constructor(seed),
                   out |-> None, calls |-> 0]
    /\ vld = VldIdle
    /\ stats = StatsIdle
    /\ smp = SmpIdle
    /\ run = RunIdle

PrngNext ==
    /\ prng.calls < MaxCalls
    /\ LET st == SeededRandom_next(prng.st)
       IN  prng' = [prng EXCEPT !.st = st, !.out = SeededRandom_value(st),
                                !.calls = @ + 1]
    /\ UNCHANGED <<vld, stats, smp, run, ui>>

(***************************************************************************)
(* The validators on their own: the caller builds a parameter object and   *)
(* calls the validator once.                                               *)
(***************************************************************************)
SimpleParamsFull ==
    [nftSupply : {0, 8888}, fdvMinM : {0, 20}, fdvMaxM : {20, 200},
     dropMinPct : {0, 5, 100}, dropMaxPct : {0, 5, 100, 101},
     numSimulations : {999, 1000}]

SimpleFields ==
    {"nftSupply", "fdvMinM", "fdvMaxM", "dropMinPct", "dropMaxPct", "numSimulations"}

\* Parameter objects for validateParams, complete or with one property absent.
SimpleParamsCases ==
    SimpleParamsFull \cup {Without(q, f) : q \in SimpleParamsFull, f \in SimpleFields}

Range(min, max, type) ==
    [id |-> "r", min |-> min, max |-> max, distributionType |-> type]
Bell(min, max, emin, emax) ==
    [id |-> "r", min |-> min, max |-> max, distributionType |-> "predictionCentric",
     expectedMin |-> emin, expectedMax |-> emax]

RangeCases ==
    {Range(0, 50, "uniform"), Range(5, 25, "linearDecreasing"),
     Range(20, 100, "linearIncreasing"), Range(50, 50, "uniform"),
     Range(-1, 5, "uniform"), Range(20, 101, "uniform"),
     Range(5, 25, "predictionCentric"),
     Bell(5, 25, 10, 20), Bell(5, 25, 4, 20), Bell(5, 25, 10, 26),
     Bell(5, 25, 20, 10), Bell(5, 25, 5, 25),
     Without(Bell(5, 25, 10, 20), "expectedMax")}

RangeLists == UNION {[1..k -> RangeCases] : k \in 0..MaxRanges}
PlainLists == {<<>>, <<Range(5, 25, "linearDecreasing")>>}

\* Parameter objects for validateAdvancedParams: one side is any list of
\* ranges, the other a plain one; either list may be absent.
AdvancedParamsCases ==
    LET full == {[nftSupply |-> n, fdvRanges |-> f, dropRanges |-> d,
                  numSimulations |-> k] :
                    n \in {0, 8888}, k \in {999, 1000},
                    <<f, d>> \in (RangeLists \X PlainLists) \cup (PlainLists \X RangeLists)}
    IN  full \cup {Without(q, "fdvRanges") : q \in full}
             \cup {Without(q, "dropRanges") : q \in full}

VldInit ==
    /\ ui = UiIdle
    /\ prng = PrngIdle
    /\ stats = StatsIdle
    /\ smp = SmpIdle
    /\ run = RunIdle
    /\ \/ \E q \in SimpleParamsCases :
              vld = [fn |-> "validateParams", input |-> q, params |-> q,
                     result |-> Pending]
       \/ \E q \in AdvancedParamsCases :
              vld = [fn |-> "validateAdvancedParams", input |-> q, params |-> q,
                     result |-> Pending]

CallValidateParams ==
    /\ vld.fn = "validateParams"
    /\ vld.result = Pending
    /\ vld' = [vld EXCEPT !.result = validateParams(vld.params)]
    /\ UNCHANGED <<prng, stats, smp, run, ui>>

CallValidateAdvancedParams ==
    /\ vld.fn = "validateAdvancedParams"
    /\ vld.result = Pending
    /\ vld' = [vld EXCEPT !.result = validateAdvancedParams(vld.params)]
    /\ UNCHANGED <<prng, stats, smp, run, ui>>

VldNext == CallValidateParams \/ CallValidateAdvancedParams

SpecVld == VldInit /\ [][VldNext]_vars

SpecPrng == PrngInit /\ [][PrngNext]_vars

(***************************************************************************)
(* The statistics on their own: the tail of a run function, from the sort  *)
(* of the value array to the threshold probabilities, on a value array     *)
(* that the sampling loop has filled.                                      *)
(***************************************************************************)
ValueCases == {SDiv(SInt(3), SInt(1024)), SInt(1), SInt(3), SInt(4), SInt(16)}
ValueLists == UNION {[1..n -> ValueCases] : n \in 1..MaxValues}

ThresholdCases == {<<SInt(60), Half, SInt(3)>>,
                   <<SInt(60), SInt(120), SInt(300)>>}

StatsInit ==
    /\ ui = UiIdle
    /\ prng = PrngIdle
    /\ vld = VldIdle
    /\ smp = SmpIdle
    /\ run = RunIdle
    /\ \E values \in ValueLists, thresholds \in ThresholdCases :
           stats = [StatsIdle EXCEPT !.pc = "values", !.values = values,
                                     !.thresholds = thresholds]

\* const sorted = new Float64Array(values).sort()
SortValues ==
    /\ stats.pc = "values"
    /\ stats' = [stats EXCEPT !.pc = "sorted",
                              !.sorted = Float64Array_sort(stats.values),
                              !.sorts = Append(@, "run")]
    /\ UNCHANGED <<prng, vld, smp, run, ui>>

\* const stats = { mean, median: percentile(sorted, 50), ... }
BuildStats ==
    /\ stats.pc = "sorted"
    /\ stats' = [stats EXCEPT !.pc = "stats",
                              !.stats = StatsOf(run.fn, stats.values, stats.sorted)]
    /\ UNCHANGED <<prng, vld, smp, run, ui>>

\* const histogram = createHistogram(values); a throw ends the run.
BuildHistogram ==
    /\ stats.pc = "stats"
    /\ LET h == createHistogram(stats.values, NumBinsOf(run.fn))
       IN  stats' = [stats EXCEPT !.pc = IF h.kind = "throw" THEN "thrown"
                                          ELSE "histogram",
                                  !.histogram = h,
                                  !.sorts = Append(@, "createHistogram")]
    /\ UNCHANGED <<prng, vld, smp, run, ui>>

\* const thresholdProbs = calcThresholdProbs(sorted, thresholds); return.
BuildThresholdProbs ==
    /\ stats.pc = "histogram"
    /\ stats' = [stats EXCEPT !.pc = "done",
                              !.thresholdProbs =
                                  calcThresholdProbs(stats.sorted, stats.thresholds)]
    /\ UNCHANGED <<prng, vld, smp, run, ui>>

StatsNext == SortValues \/ BuildStats \/ BuildHistogram \/ BuildThresholdProbs

SpecStats == StatsInit /\ [][StatsNext]_vars

(***************************************************************************)
(* The samplers on their own: the caller has a range min < max and calls   *)
(* one sampler on it, with a draw u = n / 2^32 of the generator (or, for   *)
(* the truncated normal, with a generator just constructed).               *)
(***************************************************************************)
SmpRanges ==
    {<<Decimal(1, 10), One>>, <<SInt(5), SInt(50)>>, <<SInt(20000000), SInt(200000000)>>,
     <<Plus({}), One>>, <<One, SInt(3)>>}

\* Draws: 0, 2^-32, 1/4, about 0.45, 1/2, about 0.97 and 1 - 2^-32.
DrawCases ==
    {[hi |-> 0, lo |-> 0], [hi |-> 0, lo |-> 1], [hi |-> 16384, lo |-> 0],
     [hi |-> 29491, lo |-> 13107], [hi |-> 32768, lo |-> 0], [hi |-> 63569, lo |-> 60293],
     [hi |-> 65535, lo |-> 65535]}

\* Expected ranges of a prediction-centric range: the whole range (what
\* sampleFromRange passes when none is given), its middle half, its lower end
\* alone, and a range far above it, which no candidate of the loop reaches.
ExpectedCases(min, max) ==
    LET quarter == SDiv(SSub(max, min), SInt(4))
    IN  {<<min, max>>, <<SAdd(min, quarter), SSub(max, quarter)>>, <<min, min>>}
        \cup (IF min = One THEN {<<SInt(1000), SInt(1001)>>} ELSE {})

SmpSeeds == {Word(0, 7), Word(0, 42)}

SmpInit ==
    /\ ui = UiIdle
    /\ prng = PrngIdle
    /\ vld = VldIdle
    /\ stats = StatsIdle
    /\ run = RunIdle
    /\ \E r \in SmpRanges : smp = [SmpIdle EXCEPT !.min = r[1], !.max = r[2]]

\* The record of the call fn(min, max, u) that returned value.
Sampled(fn, u, value) == [smp EXCEPT !.fn = fn, !.args = [u |-> u], !.value = value]

CallSampleUniform ==
    /\ smp.fn = "none"
    /\ \E u \in DrawCases :
           smp' = Sampled("sampleUniform", u, sampleUniform(smp.min, smp.max, Draw(u)))
    /\ UNCHANGED <<prng, vld, stats, run, ui>>

CallSampleLinearDecreasing ==
    /\ smp.fn = "none"
    /\ \E u \in DrawCases :
           smp' = Sampled("sampleLinearDecreasing", u, sampleLinearDecreasing(smp.min, smp.max, Draw(u)))
    /\ UNCHANGED <<prng, vld, stats, run, ui>>

CallSampleLinearIncreasing ==
    /\ smp.fn = "none"
    /\ \E u \in DrawCases :
           smp' = Sampled("sampleLinearIncreasing", u, sampleLinearIncreasing(smp.min, smp.max, Draw(u)))
    /\ UNCHANGED <<prng, vld, stats, run, ui>>

CallSampleZoneA ==
    /\ smp.fn = "none"
    /\ \E u \in DrawCases :
           smp' = Sampled("sampleZoneA", u, sampleZoneA(smp.min, smp.max, Draw(u)))
    /\ UNCHANGED <<prng, vld, stats, run, ui>>

CallSampleZoneB ==
    /\ smp.fn = "none"
    /\ \E u \in DrawCases :
           smp' = Sampled("sampleZoneB", u, sampleZoneB(smp.min, smp.max, Draw(u)))
    /\ UNCHANGED <<prng, vld, stats, run, ui>>

CallSampleZoneC ==
    /\ smp.fn = "none"
    /\ \E u \in DrawCases :
           smp' = Sampled("sampleZoneC", u, sampleZoneC(smp.min, smp.max, Draw(u)))
    /\ UNCHANGED <<prng, vld, stats, run, ui>>

CallSampleLogUniform ==
    /\ smp.fn = "none"
    /\ \E u \in DrawCases :
           smp' = Sampled("sampleLogUniform", u, sampleLogUniform(smp.min, smp.max, Draw(u)))
    /\ UNCHANGED <<prng, vld, stats, run, ui>>

CallSampleTriangularAutoMode ==
    /\ smp.fn = "none"
    /\ \E u \in DrawCases :
           smp' = Sampled("sampleTriangularAutoMode", u, sampleTriangularAutoMode(smp.min, smp.max, Draw(u)))
    /\ UNCHANGED <<prng, vld, stats, run, ui>>

\* The record of a call of sampleTruncatedNormal that returned r.
SampledNormal(seed, expectedMin, expectedMax, r) ==
    [smp EXCEPT !.fn = "sampleTruncatedNormal",
                !.args = [seed |-> seed, expectedMin |-> expectedMin,
                          expectedMax |-> expectedMax, rng |-> r.rng,
                          attempts |-> r.attempts, accepted |-> r.accepted],
                !.value = r.value]

CallSampleTruncatedNormal ==
    /\ smp.fn = "none"
    /\ \E seed \in SmpSeeds, e \in ExpectedCases(smp.min, smp.max) :
           smp' = SampledNormal(seed, e[1], e[2],
                                sampleTruncatedNormal(smp.min, smp.max, e[1], e[2],
                                                      SeededRandom_constructor(seed)))
    /\ UNCHANGED <<prng, vld, stats, run, ui>>

SmpNext ==
    \/ CallSampleUniform
    \/ CallSampleLinearDecreasing
    \/ CallSampleLinearIncreasing
    \/ CallSampleZoneA
    \/ CallSampleZoneB
    \/ CallSampleZoneC
    \/ CallSampleLogUniform
    \/ CallSampleTriangularAutoMode
    \/ CallSampleTruncatedNormal

SpecSmp == SmpInit /\ [][SmpNext]_vars

(***************************************************************************)
(* The mixtures on their own: the caller composes the weight table of an   *)
(* FDV range (in millions) or of a list of custom ranges and selects a     *)
(* zone with a draw, or calls the Drop% sampler on a range (in decimals)   *)
(* with two draws.                                                         *)
(***************************************************************************)
\* FDV ranges: zones A and B; all three zones; zone A alone; zones A and C,
\* the tail starting inside zone A; a range above the tail threshold; a
\* range of fractions of a million.
FdvRangeCases ==
    {<<SInt(20), SInt(200)>>, <<SInt(20), SInt(250)>>, <<SInt(20), SInt(40)>>,
     <<SInt(180), SInt(250)>>, <<SInt(250), SInt(400)>>,
     <<Decimal(1, 2), Decimal(3, 2)>>}

CustomRange(min, max, type) == [min |-> min, max |-> max, distributionType |-> type]

\* Lists of ranges of positive width: one range; two and three adjoining
\* ranges; two equal ranges apart; two overlapping ranges; three ranges of
\* width 0.1, whose weights add up to 0.9999999999999999; two ranges from 0
\* to 2^1023, which validateAdvancedParams accepts as FDV ranges and whose
\* widths add up to Infinity.
CustomRangeLists ==
    {<<CustomRange(SInt(5), SInt(25), "uniform")>>,
     <<CustomRange(SInt(20), SInt(50), "uniform"),
       CustomRange(SInt(50), SInt(200), "linearDecreasing")>>,
     <<CustomRange(SInt(5), SInt(10), "linearIncreasing"),
       CustomRange(SInt(10), SInt(25), "uniform"),
       CustomRange(SInt(25), SInt(50), "linearDecreasing")>>,
     <<CustomRange(SInt(10), SInt(20), "uniform"),
       CustomRange(SInt(30), SInt(40), "uniform")>>,
     <<CustomRange(SInt(5), SInt(25), "uniform"),
       CustomRange(SInt(10), SInt(50), "linearDecreasing")>>,
     <<CustomRange(Decimal(1, 10), Decimal(2, 10), "uniform"),
       CustomRange(Decimal(2, 10), Decimal(3, 10), "uniform"),
       CustomRange(Decimal(3, 10), Decimal(4, 10), "uniform")>>,
     <<CustomRange(Zero, Plus({1023}), "uniform"),
       CustomRange(Zero, Plus({1023}), "uniform")>>}

\* Drop% ranges as runSimpleSimulation passes them (percent / 100): 5..50,
\* 0.5..5, 1..2, 10..100, and 5..5.005, narrower than 0.0001.
DropRangeCases ==
    {<<SDiv(SInt(5), SInt(100)), SDiv(SInt(50), SInt(100))>>,
     <<SDiv(Decimal(1, 2), SInt(100)), SDiv(SInt(5), SInt(100))>>,
     <<SDiv(SInt(1), SInt(100)), SDiv(SInt(2), SInt(100))>>,
     <<SDiv(SInt(10), SInt(100)), SDiv(SInt(100), SInt(100))>>,
     <<SDiv(SInt(5), SInt(100)), SDiv(Decimal(5005, 1000), SInt(100))>>}

\* Selection draws: those of DrawCases and 3/4, a cumulative weight of the
\* three FDV zones.  Within-zone draws: 0, 1/4 and about 0.97.
SelectionDraws == DrawCases \cup {[hi |-> 49152, lo |-> 0]}
WithinDraws == {[hi |-> 0, lo |-> 0], [hi |-> 16384, lo |-> 0], [hi |-> 63569, lo |-> 60293]}

MixInit ==
    /\ ui = UiIdle
    /\ prng = PrngIdle
    /\ vld = VldIdle
    /\ stats = StatsIdle
    /\ run = RunIdle
    /\ \/ \E r \in FdvRangeCases :
              smp = [SmpIdle EXCEPT !.min = r[1], !.max = r[2], !.args = [of |-> "fdvRange"]]
       \/ \E r \in DropRangeCases :
              smp = [SmpIdle EXCEPT !.min = r[1], !.max = r[2], !.args = [of |-> "dropRange"]]
       \/ \E ranges \in CustomRangeLists :
              smp = [SmpIdle EXCEPT !.args = [of |-> "ranges", ranges |-> ranges]]

\* const fdvZones = calculateFDVZones(params.fdvMinM, params.fdvMaxM)
CallCalculateFDVZones ==
    /\ smp.fn = "none" /\ smp.args.of = "fdvRange"
    /\ smp' = [smp EXCEPT !.fn = "calculateFDVZones",
                          !.value = calculateFDVZones(smp.min, smp.max)]
    /\ UNCHANGED <<prng, vld, stats, run, ui>>

\* const fdv = sampleFDVMixture(fdvZones, u1, u2)
CallSampleFDVMixture ==
    /\ smp.fn = "calculateFDVZones"
    /\ \E u1 \in SelectionDraws, u2 \in WithinDraws :
           smp' = [smp EXCEPT !.fn = "sampleFDVMixture",
                              !.args = [of |-> "fdvRange", fdvZones |-> smp.value,
                                        u1 |-> u1, u2 |-> u2,
                                        index |-> FDVZoneIndex(smp.value.cumulativeWeights,
                                                               Draw(u1))],
                              !.value = sampleFDVMixture(smp.value, Draw(u1), Draw(u2))]
    /\ UNCHANGED <<prng, vld, stats, run, ui>>

\* const fdvWeights = calculateRangeWeights(params.fdvRanges)
CallCalculateRangeWeights ==
    /\ smp.fn = "none" /\ smp.args.of = "ranges"
    /\ smp' = [smp EXCEPT !.fn = "calculateRangeWeights",
                          !.value = calculateRangeWeights(smp.args.ranges)]
    /\ UNCHANGED <<prng, vld, stats, run, ui>>

\* const fdvCumulative = getCumulativeWeights(fdvWeights)
CallGetCumulativeWeights ==
    /\ smp.fn = "calculateRangeWeights"
    /\ smp' = [smp EXCEPT !.fn = "getCumulativeWeights",
                          !.args = [of |-> "ranges", ranges |-> smp.args.ranges,
                                    weights |-> smp.value],
                          !.value = getCumulativeWeights(smp.value)]
    /\ UNCHANGED <<prng, vld, stats, run, ui>>

\* const rangeIndex = selectRangeIndex(cumulativeWeights, u)
CallSelectRangeIndex ==
    /\ smp.fn = "getCumulativeWeights"
    /\ \E u \in SelectionDraws :
           smp' = [smp EXCEPT !.fn = "selectRangeIndex",
                              !.args = [of |-> "ranges", ranges |-> smp.args.ranges,
                                        cumulativeWeights |-> smp.value, u |-> u],
                              !.value = selectRangeIndex(smp.value, Draw(u))]
    /\ UNCHANGED <<prng, vld, stats, run, ui>>

\* const dropPct = sampleDropPercentage(pMin, pMax, u3, u4)
CallSampleDropPercentage ==
    /\ smp.fn = "none" /\ smp.args.of = "dropRange"
    /\ \E u1 \in SelectionDraws, u2 \in WithinDraws :
           smp' = [smp EXCEPT !.fn = "sampleDropPercentage",
                              !.args = [of |-> "dropRange", u1 |-> u1, u2 |-> u2,
                                        index |-> DropZoneIndex(Draw(u1))],
                              !.value = sampleDropPercentage(smp.min, smp.max,
                                                             Draw(u1), Draw(u2))]
    /\ UNCHANGED <<prng, vld, stats, run, ui>>

MixNext ==
    \/ CallCalculateFDVZones
    \/ CallSampleFDVMixture
    \/ CallCalculateRangeWeights
    \/ CallGetCumulativeWeights
    \/ CallSelectRangeIndex
    \/ CallSampleDropPercentage

SpecMix == MixInit /\ [][MixNext]_vars

(***************************************************************************)
(* A run function called twice by a caller that keeps the parameter        *)
(* object: the call up to the loop, the loop one iteration at a time, the  *)
(* statements after the loop (those of the statistics above), the return,  *)
(* and the second call on the same object.                                 *)
(***************************************************************************)
MaxSimulations == 3

RandomSeeds == {Word(0, 7), Word(0, 42)}

SimpleRun(fdvMinM, fdvMaxM, dropMinPct, dropMaxPct) ==
    [nftSupply |-> SInt(8888), fdvMinM |-> SInt(fdvMinM), fdvMaxM |-> SInt(fdvMaxM),
     dropMinPct |-> SInt(dropMinPct), dropMaxPct |-> SInt(dropMaxPct),
     numSimulations |-> MaxSimulations]

AdvancedRun(fdvRanges, dropRanges) ==
    [nftSupply |-> SInt(8888), fdvRanges |-> fdvRanges, dropRanges |-> dropRanges,
     numSimulations |-> MaxSimulations]

BellRange(min, max, expectedMin, expectedMax) ==
    [min |-> min, max |-> max, distributionType |-> "predictionCentric",
     expectedMin |-> expectedMin, expectedMax |-> expectedMax]

Seeded(params, seed) == [f \in DOMAIN params \cup {"seed"} |->
                            IF f = "seed" THEN seed ELSE params[f]]

\* The same parameters with a smaller numSimulations.
Shorter(params, numSimulations) == [params EXCEPT !.numSimulations = numSimulations]

\* The same parameters with another nftSupply.
Supplied(params, nftSupply) == [params EXCEPT !.nftSupply = SInt(nftSupply)]

\* Parameter objects for runSimpleSimulation: FDV 20..200 and 20..250 with a
\* seed, 20..200 without one, 20..200 with one simulation less, 250..400
\* (above the tail threshold) with Drop% 5..6, and four that violate the
\* contract: the FDV range 100..100 of width zero, the reversed range
\* 200..20, and the supplies 0 and -8888.
SimpleRunCases ==
    {Seeded(SimpleRun(20, 200, 5, 50), Word(0, 42)),
     Seeded(SimpleRun(20, 250, 5, 50), Word(0, 7)),
     SimpleRun(20, 200, 5, 50),
     Seeded(Shorter(SimpleRun(20, 200, 5, 50), MaxSimulations - 1), Word(0, 42)),
     Seeded(SimpleRun(250, 400, 5, 6), Word(0, 33)),
     Seeded(SimpleRun(100, 100, 5, 50), Word(0, 42)),
     Seeded(SimpleRun(200, 20, 5, 50), Word(0, 42)),
     Seeded(Supplied(SimpleRun(20, 200, 5, 50), 0), Word(0, 42)),
     Seeded(Supplied(SimpleRun(20, 200, 5, 50), -8888), Word(0, 42))}

\* Parameter objects for runAdvancedSimulation: plain ranges with and without
\* a seed, and with one simulation less; a bell-curve Drop% range with and
\* without expected bounds; an FDV range of 2^1007 .. 2^1010 millions (about
\* 1.4e303 .. 1.1e304), whose payouts overflow; and ranges of width zero on
\* both sides, which violate the contract.
AdvancedRunCases ==
    {Seeded(AdvancedRun(<<CustomRange(SInt(20), SInt(50), "uniform"),
                          CustomRange(SInt(50), SInt(200), "linearDecreasing")>>,
                        <<CustomRange(SInt(5), SInt(25), "linearIncreasing")>>),
            Word(0, 42)),
     Seeded(Shorter(AdvancedRun(<<CustomRange(SInt(20), SInt(50), "uniform"),
                                  CustomRange(SInt(50), SInt(200), "linearDecreasing")>>,
                                <<CustomRange(SInt(5), SInt(25), "linearIncreasing")>>),
                    MaxSimulations - 1),
            Word(0, 42)),
     Seeded(AdvancedRun(<<CustomRange(Plus({1007}), Plus({1010}), "uniform")>>,
                        <<CustomRange(SInt(5), SInt(25), "uniform")>>),
            Word(0, 42)),
     AdvancedRun(<<CustomRange(SInt(20), SInt(50), "uniform"),
                   CustomRange(SInt(50), SInt(200), "linearDecreasing")>>,
                 <<CustomRange(SInt(5), SInt(25), "linearIncreasing")>>),
     Seeded(AdvancedRun(<<CustomRange(SInt(20), SInt(200), "uniform")>>,
                        <<BellRange(SInt(5), SInt(25), SInt(10), SInt(20))>>),
            Word(0, 7)),
     Seeded(AdvancedRun(<<CustomRange(SInt(20), SInt(200), "predictionCentric")>>,
                        <<CustomRange(SInt(5), SInt(25), "uniform")>>),
            Word(0, 42)),
     Seeded(AdvancedRun(<<CustomRange(SInt(50), SInt(50), "uniform")>>,
                        <<CustomRange(SInt(5), SInt(5), "uniform")>>),
            Word(0, 42))}

\* A parameter object for runSimulation: a preset with numSimulations.
FixedRun(preset) ==
    [f \in DOMAIN PRESETS[preset] \cup {"numSimulations"} |->
        IF f = "numSimulations" THEN MaxSimulations ELSE PRESETS[preset][f]]

\* Parameter objects for runSimulation: the conservative preset with seed 7,
\* with one simulation less and without a seed; the base preset with seed 42.
FixedRunCases ==
    {Seeded(FixedRun("conservative"), Word(0, 7)),
     Seeded(Shorter(FixedRun("conservative"), MaxSimulations - 1), Word(0, 7)),
     FixedRun("conservative"),
     Seeded(FixedRun("base"), Word(0, 42))}

\* performance.now() at the start and at the end of a call, in milliseconds:
\* the clock does not run backwards.
ClockReadings == {SInt(100), Decimal(1005, 10)}

RunInit ==
    /\ ui = UiIdle
    /\ prng = PrngIdle
    /\ vld = VldIdle
    /\ stats = StatsIdle
    /\ smp = SmpIdle
    /\ \/ \E q \in SimpleRunCases :
              run = [RunIdle EXCEPT !.fn = "runSimpleSimulation", !.pc = "call",
                                    !.invocation = 1, !.params = q,
                                    !.thresholds = DefaultThresholds,
                                    !.input = [params |-> q,
                                               thresholds |-> DefaultThresholds]]
       \/ \E q \in AdvancedRunCases :
              run = [RunIdle EXCEPT !.fn = "runAdvancedSimulation", !.pc = "call",
                                    !.invocation = 1, !.params = q,
                                    !.thresholds = DefaultThresholds,
                                    !.input = [params |-> q,
                                               thresholds |-> DefaultThresholds]]
       \/ \E q \in FixedRunCases :
              run = [RunIdle EXCEPT !.fn = "runSimulation", !.pc = "call",
                                    !.invocation = 1, !.params = q,
                                    !.thresholds = DefaultThresholds,
                                    !.input = [params |-> q,
                                               thresholds |-> DefaultThresholds]]

\* The run after the statements before the loop, which left s; startTime is
\* what performance.now() returned.
Started(s, startTime) ==
    (CASE s = s -> [run EXCEPT !.pc = "loop", !.params = s.params,
                           !.thresholds = s.thresholds, !.seed = s.seed, !.rng = s.rng,
                           !.tables = s.tables, !.startTime = startTime])

\* The run after an iteration that left it: a value stored, or an exception.
Iterated(it) ==
    (CASE it = it ->
        IF it.outcome.kind = "throw"
        THEN [run EXCEPT !.pc = "thrown", !.rng = it.rng, !.calls = @ + it.a + it.b,
                         !.draws = [from |-> run.calls, a |-> it.a, b |-> it.b],
                         !.result = it.outcome]
        ELSE [run EXCEPT !.rng = it.rng, !.i = @ + 1, !.calls = @ + it.a + it.b,
                         !.draws = [from |-> run.calls, a |-> it.a, b |-> it.b],
                         !.values = Append(@, it.outcome.value)])

\* The statistics once the loop has ended, i < params.numSimulations being
\* false (r is the run).
ValuesOf(r) ==
    IF r.pc = "loop" /\ ~(r.i < r.params.numSimulations)
    THEN [StatsIdle EXCEPT !.pc = "values", !.values = r.values,
                           !.thresholds = r.thresholds]
    ELSE StatsIdle

\* runSimpleSimulation(params), up to the loop.
CallRunSimpleSimulation ==
    /\ run.fn = "runSimpleSimulation" /\ run.pc = "call"
    /\ \E random \in RandomSeeds, now \in ClockReadings :
           run' = Started(SimpleStart(run.params, run.thresholds,
                                      SeedOf(run.params, random)), now)
    /\ stats' = ValuesOf(run')
    /\ UNCHANGED <<prng, vld, smp, ui>>

\* runAdvancedSimulation(params), up to the loop.
CallRunAdvancedSimulation ==
    /\ run.fn = "runAdvancedSimulation" /\ run.pc = "call"
    /\ \E random \in RandomSeeds, now \in ClockReadings :
           run' = Started(AdvancedStart(run.params, run.thresholds,
                                        SeedOf(run.params, random)), now)
    /\ stats' = ValuesOf(run')
    /\ UNCHANGED <<prng, vld, smp, ui>>

\* runSimulation(params), up to the loop.
CallRunSimulation ==
    /\ run.fn = "runSimulation" /\ run.pc = "call"
    /\ \E random \in RandomSeeds, now \in ClockReadings :
           run' = Started(FixedStart(run.params, run.thresholds,
                                     SeedOf(run.params, random)), now)
    /\ stats' = ValuesOf(run')
    /\ UNCHANGED <<prng, vld, smp, ui>>

\* for (let i = 0; i < params.numSimulations; i++) { ... } of
\* runSimpleSimulation: one iteration.
IterateSimple ==
    /\ run.fn = "runSimpleSimulation" /\ run.pc = "loop"
    /\ run.i < run.params.numSimulations
    /\ run' = Iterated(SimpleIteration(run.params, run.tables, run.rng))
    /\ stats' = ValuesOf(run')
    /\ UNCHANGED <<prng, vld, smp, ui>>

\* The same for runAdvancedSimulation.
IterateAdvanced ==
    /\ run.fn = "runAdvancedSimulation" /\ run.pc = "loop"
    /\ run.i < run.params.numSimulations
    /\ run' = Iterated(AdvancedIteration(run.params, run.tables, run.rng))
    /\ stats' = ValuesOf(run')
    /\ UNCHANGED <<prng, vld, smp, ui>>

\* The same for runSimulation.
IterateFixed ==
    /\ run.fn = "runSimulation" /\ run.pc = "loop"
    /\ run.i < run.params.numSimulations
    /\ run' = Iterated(FixedIteration(run.params, run.tables, run.rng))
    /\ stats' = ValuesOf(run')
    /\ UNCHANGED <<prng, vld, smp, ui>>

Anchors(fn, params, tables) ==
    IF fn = "runSimpleSimulation" THEN SimpleAnchors(params, tables)
    ELSE IF fn = "runSimulation" THEN FixedAnchors(params)
    ELSE AdvancedAnchors(params)

\* The object runSimpleSimulation and runAdvancedSimulation return.
ResultOf(anchors, executionTimeMs) ==
    [stats |-> stats.stats, histogram |-> stats.histogram.value,
     thresholdProbs |-> stats.thresholdProbs,
     worstCase |-> anchors.worstCase, bestCase |-> anchors.bestCase,
     executionTimeMs |-> executionTimeMs]

\* The object runSimulation returns, which holds the values as well.
FixedResultOf(anchors, executionTimeMs) ==
    [values |-> run.values,
     stats |-> stats.stats, histogram |-> stats.histogram.value,
     thresholdProbs |-> stats.thresholdProbs,
     worstCase |-> anchors.worstCase, bestCase |-> anchors.bestCase,
     executionTimeMs |-> executionTimeMs]

\* The anchors, executionTimeMs = performance.now() - startTime and the
\* return statement.
ReturnResult ==
    /\ run.pc = "loop" /\ stats.pc = "done"
    /\ \E now \in ClockReadings :
           /\ SLe(run.startTime, now)
           /\ run' = [run EXCEPT
                         !.pc = "returned",
                         !.result =
                             Return(IF run.fn = "runSimulation"
                                    THEN FixedResultOf(Anchors(run.fn, run.params,
                                                               run.tables),
                                                       SSub(now, run.startTime))
                                    ELSE ResultOf(Anchors(run.fn, run.params,
                                                          run.tables),
                                                  SSub(now, run.startTime)))]
    /\ UNCHANGED <<prng, vld, stats, smp, ui>>

\* What a finished call gave its caller: the values it computed and the
\* object it returned or the exception it threw.
OutcomeOf(r, s) ==
    [values |-> r.values,
     outcome |-> IF s.pc = "thrown" THEN s.histogram ELSE r.result]

Finished == run.pc \in {"returned", "thrown"} \/ stats.pc = "thrown"

\* The caller calls the run function again, on the same objects.
CallAgain ==
    /\ run.invocation = 1 /\ Finished
    /\ run' = [RunIdle EXCEPT !.fn = run.fn, !.pc = "call", !.invocation = 2,
                              !.input = run.input, !.params = run.params,
                              !.thresholds = run.thresholds,
                              !.previous = OutcomeOf(run, stats)]
    /\ stats' = StatsIdle
    /\ UNCHANGED <<prng, vld, smp, ui>>

RunNext ==
    \/ CallRunSimpleSimulation
    \/ CallRunAdvancedSimulation
    \/ CallRunSimulation
    \/ IterateSimple
    \/ IterateAdvanced
    \/ IterateFixed
    \/ SortValues
    \/ BuildStats
    \/ BuildHistogram
    \/ BuildThresholdProbs
    \/ ReturnResult
    \/ CallAgain

SpecRun == RunInit /\ [][RunNext]_vars

(***************************************************************************)
(* The simulator component, SimpleMonteCarloSimulator.  ui holds its React *)
(* state (mode, classicParams, classicErrors, advancedParams,              *)
(* advancedErrors, thresholds, results, isRunning, showOverlapWarning),    *)
(* the callbacks setTimeout holds, each with the values its closure        *)
(* captured, and a record of what happened last: the handler that ran, the *)
(* validator call of the last Run click and the run call of the last       *)
(* timeout.  The overlap warning is a modal dialog: while it is open the   *)
(* user can confirm it or close it.  The Run button is disabled while      *)
(* isRunning.  The object a run function returns stands for itself:        *)
(* ResultsOf(call) is what the call returned.                              *)
(***************************************************************************)
DEFAULT_PARAMS ==
    [nftSupply |-> 8888, fdvMinM |-> 20, fdvMaxM |-> 200, dropMinPct |-> 5,
     dropMaxPct |-> 50, numSimulations |-> 200000]

\* generateRangeId(): Math.random().toString(36).substr(2, 9), a string that
\* differs from call to call and from load to load.  RangeIds holds two of
\* the strings it returns.
RangeIds == {"3p282cyyb", "0s3wexku7"}

\* The default parameters of a load of the module in which the two calls of
\* generateRangeId returned fdvId and dropId.
DEFAULT_ADVANCED_PARAMS(fdvId, dropId) ==
    [nftSupply |-> 8888,
     fdvRanges |-> <<[Range(20, 100, "uniform") EXCEPT !.id = fdvId]>>,
     dropRanges |-> <<[Range(5, 25, "linearDecreasing") EXCEPT !.id = dropId]>>,
     numSimulations |-> 200000]

DEFAULT_THRESHOLDS == <<60, 120, 300>>

\* a.min < b.max && b.min < a.max
RangesOverlap(a, b) == a.min < b.max /\ b.min < a.max

\* The check with each range compared with the next one only.
hasOverlap_adjacent(ranges) ==
    \E i \in 1..(Len(ranges) - 1) : RangesOverlap(ranges[i], ranges[i + 1])

\* The loops of hasOverlap from the pair (i, j), indices counted from 0.
RECURSIVE OverlapFrom(_, _, _)
OverlapFrom(ranges, i, j) ==
    IF i >= Len(ranges) THEN FALSE
    ELSE IF j >= Len(ranges) THEN OverlapFrom(ranges, i + 1, i + 2)
    ELSE IF RangesOverlap(ranges[i + 1], ranges[j + 1]) THEN TRUE
    ELSE OverlapFrom(ranges, i, j + 1)

hasOverlap(ranges) == OverlapFrom(ranges, 0, 1)

Null == [kind |-> "null"]

\* The call a timeout will make, with the values its closure captured.
RunCall(fn, params, thresholds) == [fn |-> fn, params |-> params, thresholds |-> thresholds]
NoCall == [fn |-> "none", params |-> <<>>, thresholds |-> <<>>]

\* What the call returned.
ResultsOf(call) == [kind |-> "results", of |-> call]

\* The validator call of a Run click and the list it returned.
Validated(fn, params, errors) == [fn |-> fn, params |-> params, errors |-> errors]
NotValidated == [fn |-> "none", params |-> <<>>, errors |-> <<>>]

\* prev.filter(e => e.field !== key)
RECURSIVE FilterField(_, _)
FilterField(errors, key) ==
    IF errors = <<>> THEN <<>>
    ELSE IF Head(errors).field # key
    THEN <<Head(errors)>> \o FilterField(Tail(errors), key)
    ELSE FilterField(Tail(errors), key)

\* setIsRunning(true); setTimeout(() => { ... }, 10)
Scheduled(u, call) == [u EXCEPT !.isRunning = TRUE, !.timers = Append(@, call)]

executeAdvancedSimulation(u) ==
    Scheduled(u, RunCall("runAdvancedSimulation", u.advancedParams, u.thresholds))

\* The classic branch with the run scheduled whatever the validator returned.
RunClassic_unchecked(u, validationErrors) ==
    Scheduled([u EXCEPT !.classicErrors = validationErrors],
              RunCall("runSimpleSimulation", u.classicParams, u.thresholds))

\* handleRunSimulation, mode === 'classic'
RunClassic(u, validationErrors) ==
    IF Len(validationErrors) > 0
    THEN [u EXCEPT !.classicErrors = validationErrors]
    ELSE Scheduled([u EXCEPT !.classicErrors = <<>>],
                   RunCall("runSimpleSimulation", u.classicParams, u.thresholds))

\* handleRunSimulation, the other branch
RunAdvanced(u, validationErrors) ==
    IF Len(validationErrors) > 0
    THEN [u EXCEPT !.advancedErrors = validationErrors]
    ELSE IF hasOverlap(u.advancedParams.fdvRanges) \/ hasOverlap(u.advancedParams.dropRanges)
    THEN [u EXCEPT !.advancedErrors = <<>>, !.showOverlapWarning = TRUE]
    ELSE executeAdvancedSimulation([u EXCEPT !.advancedErrors = <<>>])

handleRunSimulation(u) ==
    IF u.mode = "classic"
    THEN [RunClassic(u, validateParams(u.classicParams).value)
             EXCEPT !.event = "handleRunSimulation",
                    !.validated = Validated("validateParams", u.classicParams,
                                            validateParams(u.classicParams).value)]
    ELSE [RunAdvanced(u, validateAdvancedParams(u.advancedParams).value)
             EXCEPT !.event = "handleRunSimulation",
                    !.validated = Validated("validateAdvancedParams", u.advancedParams,
                                            validateAdvancedParams(u.advancedParams).value)]

handleOverlapConfirm(u) ==
    [executeAdvancedSimulation([u EXCEPT !.showOverlapWarning = FALSE])
        EXCEPT !.event = "handleOverlapConfirm"]

\* The values the user sets a field of the classic form to.
ClassicChanges ==
    {<<"nftSupply", 0>>, <<"nftSupply", 8888>>,
     <<"numSimulations", 999>>, <<"numSimulations", 200000>>}

AdvancedForm(nftSupply, fdvRanges, dropRanges) ==
    [nftSupply |-> nftSupply, fdvRanges |-> fdvRanges, dropRanges |-> dropRanges,
     numSimulations |-> 200000]

\* The parameter objects the advanced form hands over: the default ranges; FDV
\* ranges that overlap; Drop% ranges that overlap; FDV ranges that touch;
\* three FDV ranges of which the first and the last overlap; overlapping
\* ranges with an invalid NFT supply; an empty range inside another one.
AdvancedForms ==
    {AdvancedForm(8888, <<Range(20, 100, "uniform")>>,
                  <<Range(5, 25, "linearDecreasing")>>),
     AdvancedForm(8888, <<Range(20, 100, "uniform"), Range(50, 200, "linearDecreasing")>>,
                  <<Range(5, 25, "uniform")>>),
     AdvancedForm(8888, <<Range(20, 100, "uniform")>>,
                  <<Range(5, 25, "uniform"), Range(10, 30, "uniform")>>),
     AdvancedForm(8888, <<Range(20, 50, "uniform"), Range(50, 200, "linearDecreasing")>>,
                  <<Range(5, 25, "uniform")>>),
     AdvancedForm(8888, <<Range(20, 40, "uniform"), Range(50, 200, "uniform"),
                          Range(30, 45, "uniform")>>,
                  <<Range(5, 25, "uniform")>>),
     AdvancedForm(0, <<Range(20, 100, "uniform"), Range(50, 200, "linearDecreasing")>>,
                  <<Range(5, 25, "uniform")>>),
     AdvancedForm(8888, <<Range(20, 100, "uniform"), Range(50, 50, "uniform")>>,
                  <<Range(5, 25, "uniform")>>)}

ThresholdLists == {DEFAULT_THRESHOLDS, <<100>>}

\* The component as it is mounted.
UiInit ==
    /\ prng = PrngIdle
    /\ vld = VldIdle
    /\ stats = StatsIdle
    /\ smp = SmpIdle
    /\ run = RunIdle
    /\ \E fdvId \in RangeIds : \E dropId \in RangeIds \ {fdvId} :
           ui = [mode |-> "classic", classicParams |-> DEFAULT_PARAMS,
                 classicErrors |-> <<>>,
                 advancedParams |-> DEFAULT_ADVANCED_PARAMS(fdvId, dropId),
                 advancedErrors |-> <<>>, thresholds |-> DEFAULT_THRESHOLDS,
                 results |-> Null, isRunning |-> FALSE, showOverlapWarning |-> FALSE,
                 timers |-> <<>>, event |-> "mount", validated |-> NotValidated,
                 invoked |-> NoCall]

\* The user selects the other tab.
HandleModeChange ==
    /\ ~ui.showOverlapWarning
    /\ \E newMode \in {"classic", "advanced"} \ {ui.mode} :
           ui' = [ui EXCEPT !.mode = newMode, !.results = Null,
                            !.event = "handleModeChange"]
    /\ UNCHANGED <<prng, vld, stats, smp, run>>

\* The user edits a field of the classic form.
HandleClassicParamChange ==
    /\ ui.mode = "classic" /\ ~ui.showOverlapWarning
    /\ \E c \in ClassicChanges :
           ui' = [ui EXCEPT !.classicParams = [@ EXCEPT ![c[1]] = c[2]],
                            !.classicErrors = FilterField(@, c[1]),
                            !.event = "handleClassicParamChange"]
    /\ UNCHANGED <<prng, vld, stats, smp, run>>

\* The user edits the advanced form.
HandleAdvancedParamsChange ==
    /\ ui.mode = "advanced" /\ ~ui.showOverlapWarning
    /\ \E params \in AdvancedForms :
           ui' = [ui EXCEPT !.advancedParams = params, !.advancedErrors = <<>>,
                            !.event = "handleAdvancedParamsChange"]
    /\ UNCHANGED <<prng, vld, stats, smp, run>>

\* The user edits the thresholds, shown with the results.
SetThresholds ==
    /\ ui.results # Null /\ ~ui.showOverlapWarning
    /\ \E t \in ThresholdLists :
           ui' = [ui EXCEPT !.thresholds = t, !.event = "setThresholds"]
    /\ UNCHANGED <<prng, vld, stats, smp, run>>

\* A Run button that is never disabled.
RunButtonDisabled_never(u) == FALSE

\* <Button onClick={handleRunSimulation} disabled={isRunning}>, in both tabs
RunButtonDisabled(u) == u.isRunning

\* The user presses Run.
HandleRunSimulation ==
    /\ ~RunButtonDisabled(ui) /\ ~ui.showOverlapWarning
    /\ ui' = handleRunSimulation(ui)
    /\ UNCHANGED <<prng, vld, stats, smp, run>>

\* The user presses OK in the overlap warning.
HandleOverlapConfirm ==
    /\ ui.showOverlapWarning
    /\ ui' = handleOverlapConfirm(ui)
    /\ UNCHANGED <<prng, vld, stats, smp, run>>

\* The user closes the overlap warning: onOpenChange(false).
CloseOverlapWarning ==
    /\ ui.showOverlapWarning
    /\ ui' = [ui EXCEPT !.showOverlapWarning = FALSE, !.event = "onOpenChange"]
    /\ UNCHANGED <<prng, vld, stats, smp, run>>

\* The timeout fires: the run function is called, its result stored.
Timeout ==
    /\ Len(ui.timers) > 0
    /\ ui' = [ui EXCEPT !.timers = Tail(@), !.results = ResultsOf(Head(ui.timers)),
                        !.isRunning = FALSE, !.invoked = Head(ui.timers),
                        !.event = "timeout"]
    /\ UNCHANGED <<prng, vld, stats, smp, run>>

UiNext ==
    \/ HandleModeChange
    \/ HandleClassicParamChange
    \/ HandleAdvancedParamsChange
    \/ SetThresholds
    \/ HandleRunSimulation
    \/ HandleOverlapConfirm
    \/ CloseOverlapWarning
    \/ Timeout

SpecUi == UiInit /\ [][UiNext]_vars

(***************************************************************************)
(* C2.  Every value next() returns is the new s0 word, read as an unsigned *)
(* 32-bit integer, over 2^32: its numerator lies in 0 .. 2^32 - 1, so the  *)
(* value u satisfies 0 <= u < 1 and is never 1.0.                          *)
(***************************************************************************)
C2_NextInUnitInterval ==
    prng.calls > 0 =>
        /\ prng.out.hi \in 0..65535
        /\ prng.out.lo \in 0..65535
        /\ Word(prng.out.hi, prng.out.lo) = prng.st.s0

\* next() has returned a value whose word has the sign bit set.
C2_Witness == prng.calls > 0 /\ 31 \in prng.st.s0

(***************************************************************************)
(* C3.  validateParams reports the "max must exceed min" error on field    *)
(* dropMaxPct whenever dropMaxPct <= dropMinPct, an error on field         *)
(* numSimulations whenever numSimulations < 1000, and no numSimulations    *)
(* error when numSimulations >= 1000.                                      *)
(***************************************************************************)
ErrorOn(errs, field) == \E i \in 1..Len(errs) : errs[i].field = field

C3_ValidatorBoundary ==
    (vld.fn = "validateParams" /\ vld.result.kind = "return") =>
        LET q    == vld.input
            errs == vld.result.value
        IN  /\ (Has(q, "dropMaxPct") /\ Has(q, "dropMinPct")
                    /\ q.dropMaxPct <= q.dropMinPct)
                => \E i \in 1..Len(errs) :
                       /\ errs[i].field = "dropMaxPct"
                       /\ errs[i].message = "Drop% Max must be greater than Drop% Min"
            /\ (Has(q, "numSimulations") /\ q.numSimulations < 1000)
                => ErrorOn(errs, "numSimulations")
            /\ (Has(q, "numSimulations") /\ q.numSimulations >= 1000)
                => ~ErrorOn(errs, "numSimulations")

\* validateParams has returned for dropMaxPct = dropMinPct and exactly 1000
\* simulations: one error, on dropMaxPct.
C3_Witness ==
    /\ vld.fn = "validateParams" /\ vld.result.kind = "return"
    /\ DOMAIN vld.input = SimpleFields
    /\ vld.input.dropMaxPct = vld.input.dropMinPct
    /\ vld.input.numSimulations = 1000
    /\ ErrorOn(vld.result.value, "dropMaxPct")
    /\ ~ErrorOn(vld.result.value, "numSimulations")

(***************************************************************************)
(* C4.  A validator returns an empty list exactly when all of its rules    *)
(* hold: supply > 0, every range bound strictly positive, max > min for    *)
(* every range, every Drop% bound in (0, 100], min <= expectedMin <        *)
(* expectedMax <= max for every predictionCentric range, numSimulations >= *)
(* 1000; validateAdvancedParams never returns an empty list for an FDV     *)
(* range whose min is 0.  The model refutes this: validateAdvancedParams   *)
(* tests range.min < 0 and returns an empty list for the FDV range 0..50.  *)
(***************************************************************************)
C4_SimpleRules(q) ==
    /\ q.nftSupply > 0
    /\ q.fdvMinM > 0 /\ q.fdvMaxM > 0 /\ q.fdvMaxM > q.fdvMinM
    /\ q.dropMinPct > 0 /\ q.dropMinPct <= 100
    /\ q.dropMaxPct > 0 /\ q.dropMaxPct <= 100
    /\ q.dropMaxPct > q.dropMinPct
    /\ q.numSimulations >= 1000

C4_BellRule(r) ==
    r.distributionType = "predictionCentric" =>
        /\ Has(r, "expectedMin") /\ Has(r, "expectedMax")
        /\ r.min <= r.expectedMin
        /\ r.expectedMin < r.expectedMax
        /\ r.expectedMax <= r.max

C4_AdvancedRules(q, FdvMinRule(_)) ==
    /\ q.nftSupply > 0
    /\ Len(q.fdvRanges) > 0 /\ Len(q.dropRanges) > 0
    /\ \A i \in 1..Len(q.fdvRanges) :
           LET r == q.fdvRanges[i]
           IN  FdvMinRule(r) /\ r.max > r.min /\ C4_BellRule(r)
    /\ \A i \in 1..Len(q.dropRanges) :
           LET r == q.dropRanges[i]
           IN  /\ r.min > 0 /\ r.min <= 100 /\ r.max > 0 /\ r.max <= 100
               /\ r.max > r.min /\ C4_BellRule(r)
    /\ q.numSimulations >= 1000

C4_Holds(FdvMinRule(_)) ==
    /\ (vld.fn = "validateParams" /\ vld.result.kind = "return"
            /\ DOMAIN vld.input = SimpleFields)
        => (vld.result.value = <<>> <=> C4_SimpleRules(vld.input))
    /\ (vld.fn = "validateAdvancedParams" /\ vld.result.kind = "return")
        => (vld.result.value = <<>> <=> C4_AdvancedRules(vld.input, FdvMinRule))

\* C4: each validator returns an empty list exactly when its rules hold,
\* every FDV bound strictly positive among them.
C4_AsClaimed == C4_Holds(LAMBDA r : r.min > 0 /\ r.max > 0)

\* What does hold on the parameter objects of SpecVld, whose numbers are
\* integers: the same with the FDV minimum of a custom range allowed to be 0.
C4_EmptyIffRules == C4_Holds(LAMBDA r : r.min >= 0)

\* validateAdvancedParams has returned an empty list for an FDV range whose
\* minimum is 0.
C4_Witness ==
    /\ vld.fn = "validateAdvancedParams" /\ vld.result.kind = "return"
    /\ vld.result.value = <<>>
    /\ \E i \in 1..Len(vld.input.fdvRanges) : vld.input.fdvRanges[i].min = 0

(***************************************************************************)
(* C5.  The validators are total and pure: whatever the input, missing     *)
(* range lists included, the call returns a list, never throws, and leaves *)
(* the parameter object as it was.                                         *)
(***************************************************************************)
C5_TotalAndPure ==
    vld.result.kind # "pending" =>
        /\ vld.result.kind = "return"
        /\ vld.params = vld.input

(***************************************************************************)
(* C6.  For every result of a run over n >= 1 values,                      *)
(* min <= p5 <= p10 <= p25 <= median <= p75 <= p90 <= p95 <= max.          *)
(***************************************************************************)
C6_PercentilesOrdered ==
    stats.pc = "done" =>
        LET st == stats.stats
        IN  /\ SLe(st.min, st.p5)
            /\ SLe(st.p5, st.p10)
            /\ SLe(st.p10, st.p25)
            /\ SLe(st.p25, st.median)
            /\ SLe(st.median, st.p75)
            /\ SLe(st.p75, st.p90)
            /\ SLe(st.p90, st.p95)
            /\ SLe(st.p95, st.max)

(***************************************************************************)
(* C7.  For every value collection, createHistogram returns bins in which  *)
(* each value >= max(minObserved, 0.01) is counted exactly once and no     *)
(* other value is counted, so the counts sum to the number of values not   *)
(* below the floor; and every bin's density is its count over the number n *)
(* of all values.                                                          *)
(***************************************************************************)
RECURSIVE SumCounts(_, _)
SumCounts(bins, b) ==
    IF b < 0 THEN 0 ELSE bins[b].count + SumCounts(bins, b - 1)

C7_HistogramConservation ==
    stats.pc \in {"histogram", "thrown", "done"} =>
        LET n      == Len(stats.values)
            lowest == stats.sorted[1]
            floor  == IF SLt(lowest, HistogramFloor) THEN HistogramFloor ELSE lowest
            kept   == {i \in 1..n : SLe(floor, stats.values[i])}
        IN  /\ stats.histogram.kind = "return"
            /\ SumCounts(stats.histogram.value, NumBins - 1) = Cardinality(kept)
            /\ \A b \in 0..(NumBins - 1) :
                   stats.histogram.value[b].density
                       = Ratio(stats.histogram.value[b].count, n)

(***************************************************************************)
(* C8.  For any two thresholds t1 < t2 supplied to the same run,           *)
(* thresholdProbs[t1] >= thresholdProbs[t2].                               *)
(***************************************************************************)
C8_ThresholdMonotone ==
    stats.pc = "done" =>
        \A t1, t2 \in DOMAIN stats.thresholdProbs :
            SLt(t1, t2) =>
                stats.thresholdProbs[t1].num * stats.thresholdProbs[t2].den
                    >= stats.thresholdProbs[t2].num * stats.thresholdProbs[t1].den

\* A run has returned probabilities for two thresholds, strictly larger for
\* the smaller threshold.
C8_Witness ==
    /\ stats.pc = "done"
    /\ \E t1, t2 \in DOMAIN stats.thresholdProbs :
           /\ SLt(t1, t2)
           /\ stats.thresholdProbs[t1].num > stats.thresholdProbs[t2].num
           /\ stats.thresholdProbs[t2].num > 0

(***************************************************************************)
(* C9.  For every ascending-sorted collection of n >= 1 values and every   *)
(* threshold t, the binary search ends and the probability returned is     *)
(* (n - k) / n, k the smallest index with sorted[k] >= t (n when there is   *)
(* none): the fraction of the samples that are >= t.                       *)
(***************************************************************************)
FirstAtLeast(sorted, t) ==
    LET n    == Len(sorted)
        hits == {k \in 0..(n - 1) : SLe(t, sorted[k + 1])}
    IN  IF hits = {} THEN n ELSE CHOOSE k \in hits : \A j \in hits : k <= j

C9_ThresholdFraction ==
    stats.pc = "done" =>
        LET n == Len(stats.sorted)
        IN  \A i \in 1..Len(stats.thresholds) :
                LET t == stats.thresholds[i]
                IN  /\ stats.thresholdProbs[t]
                           = Ratio(n - FirstAtLeast(stats.sorted, t), n)
                    /\ stats.thresholdProbs[t].num
                           = Cardinality({j \in 1..n : SLe(t, stats.values[j])})

\* A run has returned the probability of a threshold that equals one of the
\* values, with values on both sides of it.
C9_Witness ==
    /\ stats.pc = "done"
    /\ \E i \in 1..Len(stats.thresholds) :
           LET t == stats.thresholds[i]
               k == FirstAtLeast(stats.sorted, t)
           IN  /\ 0 < k /\ k < Len(stats.sorted)
               /\ stats.sorted[k + 1] = t
               /\ \E j \in 1..Len(stats.sorted) : SLt(t, stats.sorted[j])

(***************************************************************************)
(* C10.  Whatever primitive sampler was called (uniform, linear           *)
(* decreasing, linear increasing, log-uniform, triangular, plateau then    *)
(* linear decline, truncated exponential, truncated normal), on whatever   *)
(* range min < max and with whatever draw, the value it returned lies in   *)
(* [min, max].  The model refutes this: sampleLinearDecreasing(0.1, 1, 0)  *)
(* is 1 - 0.9 = 0.09999999999999998, below min; sampleLogUniform(2e7, 2e8, *)
(* 0) is exp(log(2e7)) = 19999999.999999978, below min; and                *)
(* sampleLogUniform(0, 1, u) is NaN for every u.                           *)
(***************************************************************************)
C10_SampleInRange ==
    smp.fn # "none" => SLe(smp.min, smp.value) /\ SLe(smp.value, smp.max)

(***************************************************************************)
(* C11.  Every cumulative-weight table the composers build                 *)
(* (calculateFDVZones for a range fdvMin < fdvMax, with any of the zones   *)
(* absent; calculateRangeWeights and getCumulativeWeights for a list of    *)
(* ranges of positive width) is non-decreasing, has positive weights, and  *)
(* ends at 1 within float tolerance (one part in a billion); this holds    *)
(* too when a zone is absent, so the absent zone was dropped before the    *)
(* weights were normalized.  The model refutes this for                    *)
(* calculateRangeWeights: the widths of two ranges from 0 to 2^1023 add up *)
(* to Infinity, every weight is width / Infinity = 0 and the table is      *)
(* [0, 0].                                                                 *)
(***************************************************************************)
FloatTolerance == Decimal(1, 1000000000)

NonDecreasing(cw) == \A i \in 1..(Len(cw) - 1) : SLe(cw[i], cw[i + 1])
EndsAtOne(cw) ==
    Len(cw) > 0 /\ SLe(MathAbs(SSub(cw[Len(cw)], One)), FloatTolerance)

\* The tables of calculateFDVZones.
C11_ZoneTables ==
    smp.fn = "calculateFDVZones" =>
        /\ NonDecreasing(smp.value.cumulativeWeights)
        /\ EndsAtOne(smp.value.cumulativeWeights)
        /\ Len(smp.value.cumulativeWeights) = Len(smp.value.zones)
        /\ \A i \in 1..Len(smp.value.zones) : SLt(Zero, smp.value.zones[i].weight)
        /\ EndsAtOne(<<SumWeights(smp.value.zones, Len(smp.value.zones))>>)

\* The tables of getCumulativeWeights.
RangeTableHolds ==
    /\ NonDecreasing(smp.value)
    /\ EndsAtOne(smp.value)
    /\ Len(smp.value) = Len(smp.args.ranges)

C11_CumulativeWeights ==
    /\ C11_ZoneTables
    /\ smp.fn = "getCumulativeWeights" => RangeTableHolds

\* What does hold of getCumulativeWeights: the table of a list whose widths
\* have a finite sum.
FiniteTotalWidth(ranges) == SumWidths(ranges, Len(ranges)).mag # Infinity
C11_FiniteWidthTables ==
    (smp.fn = "getCumulativeWeights" /\ FiniteTotalWidth(smp.args.ranges))
        => RangeTableHolds

\* A range below the tail threshold: zone C is absent and the two remaining
\* weights, 0.75 / 0.99 and 0.24 / 0.99, end the table at 1.
C11_Witness ==
    /\ smp.fn = "calculateFDVZones"
    /\ Len(smp.value.zones) = 2
    /\ smp.value.zones[1].weight = SDiv(baseWA, SAdd(baseWA, baseWB))
    /\ EndsAtOne(smp.value.cumulativeWeights)

\* The table of the two ranges from 0 to 2^1023.
C11_WitnessOverflow ==
    /\ smp.fn = "getCumulativeWeights"
    /\ smp.args.ranges = <<CustomRange(Zero, Plus({1023}), "uniform"),
                           CustomRange(Zero, Plus({1023}), "uniform")>>
    /\ smp.args.weights = <<Zero, Zero>>
    /\ smp.value = <<Zero, Zero>>

(***************************************************************************)
(* C12.  In every mixture sampler the zone selected for the draw u1 is the *)
(* first one, in insertion order, whose cumulative weight is at least u1;  *)
(* a draw equal to a cumulative weight selects the earlier zone.  The      *)
(* model refutes this for sampleDropPercentage, which compares with `<`:   *)
(* for u1 = 0.5 and the weights 0.5 / 0.4 / 0.1 it selects zone B, the     *)
(* second zone, although the first zone's cumulative weight is 0.5.        *)
(* sampleFDVMixture and selectRangeIndex, which compare with `<=`, select  *)
(* as stated.                                                              *)
(***************************************************************************)
IsFirstAtLeast(cw, u, index) ==
    /\ index + 1 \in 1..Len(cw)
    /\ SLe(u, cw[index + 1])
    /\ \A j \in 1..index : SLt(cw[j], u)

C12_FDVFirstAtLeast ==
    smp.fn = "sampleFDVMixture" =>
        IsFirstAtLeast(smp.args.fdvZones.cumulativeWeights, Draw(smp.args.u1),
                       smp.args.index)

C12_RangeFirstAtLeast ==
    smp.fn = "selectRangeIndex" =>
        IsFirstAtLeast(smp.args.cumulativeWeights, Draw(smp.args.u), smp.value)

C12_DropFirstAtLeast ==
    (smp.fn = "sampleDropPercentage" /\ ~SLt(SSub(smp.max, smp.min), NarrowRange)) =>
        IsFirstAtLeast(DropCumulativeWeights, Draw(smp.args.u1), smp.args.index)

C12_FirstZoneAtLeast ==
    C12_FDVFirstAtLeast /\ C12_RangeFirstAtLeast /\ C12_DropFirstAtLeast

(***************************************************************************)
(* C20.  The Drop% sampler is range-invariant: on every range of width at  *)
(* least 0.0001 and for every pair of draws, the relative position         *)
(* (sample - pMin) / (pMax - pMin) of the sample is the one the same draws *)
(* give on the reference range 0.05 .. 0.5 (within one part in a billion,  *)
(* to allow for rounding).  The model refutes this in zone C, whose decay  *)
(* rate k = 8 is applied to the absolute width of the zone: for the draws  *)
(* (0.97, 0.25) the relative position is about 0.512 on 0.05 .. 0.5 and   *)
(* about 0.581 on 0.01 .. 0.02.  In zones A and B the relative position    *)
(* does not depend on the range.                                           *)
(***************************************************************************)
RelativePosition(sample, pMin, pMax) == SDiv(SSub(sample, pMin), SSub(pMax, pMin))

ReferenceMin == SDiv(SInt(5), SInt(100))
ReferenceMax == SDiv(SInt(50), SInt(100))

SamePosition(index) ==
    (smp.fn = "sampleDropPercentage" /\ smp.args.index = index
        /\ ~SLt(SSub(smp.max, smp.min), NarrowRange)) =>
        SLe(MathAbs(SSub(RelativePosition(smp.value, smp.min, smp.max),
                         RelativePosition(sampleDropPercentage(ReferenceMin, ReferenceMax,
                                                               Draw(smp.args.u1),
                                                               Draw(smp.args.u2)),
                                          ReferenceMin, ReferenceMax))),
            FloatTolerance)

C20_ZoneAInvariant == SamePosition(0)
C20_ZoneBInvariant == SamePosition(1)
C20_ZoneCInvariant == SamePosition(2)

C20_RangeInvariant == C20_ZoneAInvariant /\ C20_ZoneBInvariant /\ C20_ZoneCInvariant

(***************************************************************************)
(* C15.  sampleTruncatedNormal terminates after at most 100 attempts.      *)
(* Each attempt takes exactly two draws of the generator, so after the     *)
(* call the generator has advanced by twice the number of attempts.  The   *)
(* candidates of all attempts before the last lie outside [min, max]; if   *)
(* the last candidate lies inside, it is the value returned; otherwise 100 *)
(* attempts were made and the value returned is the mean clamped to        *)
(* [min, max].  The value returned is always in [min, max].                *)
(***************************************************************************)
\* The candidate of attempt k of a call on a generator just constructed from
\* seed: mean + z * std, z from draws 2k - 1 and 2k.
Candidate(seed, k, mean, std) ==
    SAdd(mean,
         SMul(boxMuller(Draw(SeededRandom_value(WarmUp(SeededRandom_constructor(seed),
                                                       2 * k - 1))),
                        Draw(SeededRandom_value(WarmUp(SeededRandom_constructor(seed),
                                                       2 * k)))),
              std))

InRange(x, min, max) == SLe(min, x) /\ SLe(x, max)

MeanOf(a) == SDiv(SAdd(a.expectedMin, a.expectedMax), Two)
StdOf(a, min, max) ==
    TruncatedNormalStd(min, max, SDiv(SSub(a.expectedMax, a.expectedMin), Two))

C15_TruncatedNormalTerminates ==
    smp.fn = "sampleTruncatedNormal" =>
        /\ smp.args.attempts \in 1..MaxAttempts
        /\ smp.args.rng = WarmUp(SeededRandom_constructor(smp.args.seed),
                                 2 * smp.args.attempts)
        /\ \A k \in 1..(smp.args.attempts - 1) :
               ~InRange(Candidate(smp.args.seed, k, MeanOf(smp.args),
                                  StdOf(smp.args, smp.min, smp.max)),
                        smp.min, smp.max)
        /\ smp.args.accepted =
               InRange(Candidate(smp.args.seed, smp.args.attempts, MeanOf(smp.args),
                                 StdOf(smp.args, smp.min, smp.max)),
                       smp.min, smp.max)
        /\ smp.args.accepted =>
               smp.value = Candidate(smp.args.seed, smp.args.attempts, MeanOf(smp.args),
                                     StdOf(smp.args, smp.min, smp.max))
        /\ ~smp.args.accepted =>
               /\ smp.args.attempts = MaxAttempts
               /\ smp.value = MathMax(smp.min, MathMin(smp.max, MeanOf(smp.args)))
        /\ InRange(smp.value, smp.min, smp.max)

\* The expected range 1000 .. 1001 on the range 1 .. 3: all 100 candidates
\* are rejected and the mean, 1000.5, is clamped to 3.
C15_Witness ==
    /\ smp.fn = "sampleTruncatedNormal"
    /\ ~smp.args.accepted
    /\ smp.args.attempts = MaxAttempts
    /\ smp.value = SInt(3)

\* A call that accepted a candidate after rejecting at least one.
C15_WitnessRetry ==
    /\ smp.fn = "sampleTruncatedNormal"
    /\ smp.args.accepted
    /\ smp.args.attempts > 1

(***************************************************************************)
(* C13.  Draws an iteration of the batch loop takes from the run's PRNG.   *)
(* run.draws is the last iteration: the number of draws taken before it    *)
(* and the numbers side A (FDV) and side B (Drop%) took.                   *)
(***************************************************************************)
\* C13 (order): the draws of a run are the successive outputs of the one
\* PRNG built from the run's seed, none skipped and none taken twice: after
\* every iteration the PRNG stands where run.calls calls of next() put it,
\* side A's draws before side B's.
C13_Sequential ==
    run.pc \in {"loop", "thrown", "returned"} =>
        /\ run.rng = WarmUp(SeededRandom_constructor(run.seed), run.calls)
        /\ run.draws # <<>> => run.calls = run.draws.from + run.draws.a + run.draws.b

\* C13 (count): each side of an iteration consumes one or two uniform draws,
\* whatever zone or distribution type is selected.
C13_OneOrTwoDraws ==
    run.draws # <<>> => run.draws.a \in 1..2 /\ run.draws.b \in 1..2

\* C13: in every engine each iteration draws in the order side A then side
\* B, selection before within-zone, and each side consumes one or two
\* uniform draws per iteration, predictionCentric ranges included.
C13_DrawOrder == C13_Sequential /\ C13_OneOrTwoDraws

(***************************************************************************)
(* C14.  Sorting during a run.  stats.sorts lists, in order, the callers   *)
(* that have sorted a copy of the run's values.                            *)
(***************************************************************************)
\* C14 (shared array): the percentiles and the threshold probabilities are
\* computed from the array the run function sorted.
C14_SharedByStatistics ==
    /\ stats.pc \in {"stats", "histogram", "done"} =>
           stats.stats = StatsOf(run.fn, stats.values, stats.sorted)
    /\ stats.pc = "done" =>
           stats.thresholdProbs = calcThresholdProbs(stats.sorted, stats.thresholds)
    /\ stats.pc \in {"sorted", "stats", "histogram", "done"} =>
           stats.sorted = Float64Array_sort(stats.values)

\* C14: during one run the value collection is sorted exactly once, and that
\* one sorted array serves the percentiles, the histogram and the threshold
\* probabilities.
C14_SortedOnce ==
    /\ Len(stats.sorts) <= 1
    /\ stats.pc \in {"sorted", "stats", "histogram", "done"} => Len(stats.sorts) = 1
    /\ C14_SharedByStatistics

(***************************************************************************)
(* C16.  What a run does to its inputs and what it takes from an earlier   *)
(* run.  run.input is the caller's copy of the objects it passed to the    *)
(* first call, taken before the call; run.params and run.thresholds are    *)
(* the objects themselves, which the second call receives again.           *)
(***************************************************************************)
\* The tables a call builds before its loop from the inputs alone.
FreshTables(fn, input, seed) ==
    IF fn = "runSimpleSimulation"
    THEN SimpleStart(input.params, input.thresholds, seed).tables
    ELSE IF fn = "runSimulation"
    THEN FixedStart(input.params, input.thresholds, seed).tables
    ELSE AdvancedStart(input.params, input.thresholds, seed).tables

\* C16: a run never modifies its inputs (the params object with its ranges
\* and the thresholds list are after the call what they were before it), and
\* every call, the second as the first, enters its loop with a PRNG built
\* from its own seed, weight tables built from its inputs and an empty value
\* array: nothing a run wrote is read by a later run.
C16_InputsUntouched ==
    /\ run.pc # "idle" =>
           /\ run.params = run.input.params
           /\ run.thresholds = run.input.thresholds
    /\ run.pc = "loop" /\ run.i = 0 =>
           /\ run.rng = SeededRandom_constructor(run.seed)
           /\ run.tables = FreshTables(run.fn, run.input, run.seed)
           /\ run.values = <<>>
           /\ run.calls = 0

\* A second call of runAdvancedSimulation on the same objects, with custom
\* ranges, has returned.
C16_Witness ==
    /\ run.fn = "runAdvancedSimulation"
    /\ run.invocation = 2
    /\ run.pc = "returned"
    /\ Len(run.params.fdvRanges) = 2
    /\ run.previous.outcome.kind = "return"

\* The same for runSimpleSimulation.
C16_WitnessSimple ==
    /\ run.fn = "runSimpleSimulation"
    /\ run.invocation = 2
    /\ run.pc = "returned"
    /\ run.previous.outcome.kind = "return"

(***************************************************************************)
(* C19.  Calls with parameters that violate the contract.                  *)
(***************************************************************************)
\* Some range of the list has max <= min.
SomeEmptyRange(ranges) == \E k \in 1..Len(ranges) : SLe(ranges[k].max, ranges[k].min)

\* The parameters violate the contract of the run function: nftSupply <= 0,
\* a range of width zero, or max <= min.
ContractViolated(fn, params) ==
    \/ SLe(params.nftSupply, Zero)
    \/ /\ fn = "runSimpleSimulation"
       /\ \/ SLe(params.fdvMaxM, params.fdvMinM)
          \/ SLe(params.dropMaxPct, params.dropMinPct)
    \/ /\ fn = "runAdvancedSimulation"
       /\ SomeEmptyRange(params.fdvRanges) \/ SomeEmptyRange(params.dropRanges)
    \/ /\ fn = "runSimulation"
       /\ \/ SLe(params.fdvMaxA, params.fdvMinA)
          \/ SLe(params.fdvMaxB, params.fdvMinB)
          \/ SLe(params.dropMax, params.dropMin)
          \/ SLe(params.dropTailMax, params.dropTailMin)

\* C19: a run entry point called with parameters that violate the contract
\* does not throw: neither its loop nor its statistics end in an exception.
C19_NoThrow ==
    (run.pc # "idle" /\ ContractViolated(run.fn, run.input.params)) =>
        /\ run.pc # "thrown"
        /\ stats.pc # "thrown"

\* Some value of the run is Infinity.
SomeInfinite(values) == \E k \in 1..Len(values) : values[k].mag = Infinity

\* Calls with valid parameters of SpecRun whose values are finite do not throw.
C19_ValidReturns ==
    (/\ run.pc # "idle"
     /\ ~ContractViolated(run.fn, run.input.params)
     /\ ~SomeInfinite(run.values)) =>
        /\ run.pc # "thrown"
        /\ stats.pc # "thrown"

(***************************************************************************)
(* C1.  Two calls of a run function with the same seed and parameters.     *)
(* The second call receives the objects the first call was given, as the   *)
(* first call left them; what Math.random and performance.now() give is    *)
(* chosen anew for each call.  run.previous is what the first call gave:   *)
(* its values and the object it returned or the exception it threw.        *)
(***************************************************************************)
\* The object a call returned without its executionTimeMs.
WithoutExecutionTime(outcome) ==
    IF outcome.kind = "return"
    THEN Return([f \in DOMAIN outcome.value \ {"executionTimeMs"} |-> outcome.value[f]])
    ELSE outcome

\* What the claim compares of a finished call.
Reproducible(given) ==
    [values |-> given.values, outcome |-> WithoutExecutionTime(given.outcome)]

\* C1: for a fixed seed and fixed parameters the second call of a run entry
\* point (runSimpleSimulation, runAdvancedSimulation, runSimulation) produces
\* the same sequence of values as the first, value by value, and ends as the
\* first did, with identical stats, histogram, thresholdProbs, worstCase and
\* bestCase: every field of the result except executionTimeMs.
C1_SameSeedSameResult ==
    (run.invocation = 2 /\ Has(run.params, "seed")) =>
        /\ Len(run.values) <= Len(run.previous.values)
        /\ \A k \in 1..Len(run.values) : run.values[k] = run.previous.values[k]
        /\ Finished => Reproducible(OutcomeOf(run, stats)) = Reproducible(run.previous)

\* The fixed-formula engine run twice with seed 7 on the conservative preset:
\* the second call has returned, the clock having given it another
\* executionTimeMs than the first.
C1_Witness ==
    /\ run.fn = "runSimulation"
    /\ run.invocation = 2
    /\ run.input.params = Seeded(FixedRun("conservative"), Word(0, 7))
    /\ run.pc = "returned"
    /\ Len(run.result.value.values) = MaxSimulations
    /\ run.previous.outcome.kind = "return"
    /\ run.result.value.executionTimeMs # run.previous.outcome.value.executionTimeMs

\* The same for runSimpleSimulation.
C1_WitnessSimple ==
    /\ run.fn = "runSimpleSimulation"
    /\ run.invocation = 2
    /\ Has(run.params, "seed")
    /\ run.pc = "returned"
    /\ Len(run.values) = MaxSimulations
    /\ run.previous.outcome.kind = "return"
    /\ run.result.value.executionTimeMs # run.previous.outcome.value.executionTimeMs

\* The same for runAdvancedSimulation, on a predictionCentric range.
C1_WitnessAdvanced ==
    /\ run.fn = "runAdvancedSimulation"
    /\ run.invocation = 2
    /\ Has(run.params, "seed")
    /\ run.pc = "returned"
    /\ run.params.dropRanges[1].distributionType = "predictionCentric"
    /\ run.result.value.executionTimeMs # run.previous.outcome.value.executionTimeMs

\* Without a seed two calls may differ, each taking its seed from
\* Math.random: a second unseeded call of each run function that ended
\* otherwise than the first.
C1_WitnessUnseededDiffers ==
    /\ run.invocation = 2
    /\ ~Has(run.params, "seed")
    /\ Finished
    /\ Reproducible(OutcomeOf(run, stats)) # Reproducible(run.previous)

C1_WitnessFixedUnseededDiffers == C1_WitnessUnseededDiffers /\ run.fn = "runSimulation"

(***************************************************************************)
(* C17.  The simulator validates before it runs.                           *)
(***************************************************************************)
\* The validator that goes with a run function, and what it returns.
ValidatorFor(fn) ==
    IF fn = "runSimpleSimulation" THEN "validateParams" ELSE "validateAdvancedParams"

ValidationOf(call) ==
    IF call.fn = "runSimpleSimulation" THEN validateParams(call.params)
    ELSE validateAdvancedParams(call.params)

\* The call was validated by the last Run click: the matching validator was
\* given the call's parameters and returned an empty list.
ValidatedByClick(call, validated) ==
    /\ validated.fn = ValidatorFor(call.fn)
    /\ validated.params = call.params
    /\ validated.errors = <<>>
    /\ ValidationOf(call) = Return(<<>>)

\* A step of the component as C17 allows it.
ValidatesBeforeRun ==
    /\ Len(ui'.timers) > Len(ui.timers) =>
           /\ Len(ui'.timers) = 1
           /\ ValidatedByClick(ui'.timers[1], ui'.validated)
    /\ ui'.event = "timeout" => ValidatedByClick(ui'.invoked, ui.validated)
    /\ (ui'.event = "handleRunSimulation" /\ Len(ui'.validated.errors) > 0) =>
           /\ ui'.timers = ui.timers
           /\ ui'.results = ui.results
           /\ ui'.isRunning = ui.isRunning
           /\ ui'.showOverlapWarning = ui.showOverlapWarning
           /\ ui.mode = "classic" => ui'.classicErrors = ui'.validated.errors
           /\ ui.mode = "advanced" => ui'.advancedErrors = ui'.validated.errors

\* C17: a run entry point is only invoked with parameters for which the
\* matching validator returned an empty list on the Run click that scheduled
\* the call; when the validator returns errors no run is scheduled, the
\* errors are stored for display, and results and isRunning stay as they are.
C17_ValidatesBeforeRun == [][ValidatesBeforeRun]_vars

\* A Run click that failed validation while the results of an earlier run,
\* made with validated parameters, are on display.
C17_Witness ==
    /\ ui.event = "handleRunSimulation"
    /\ ui.mode = "classic"
    /\ Len(ui.classicErrors) > 0
    /\ ui.invoked.fn = "runSimpleSimulation"
    /\ ui.results = ResultsOf(ui.invoked)
    /\ ~ui.isRunning

\* A run made with the parameters of the click although the form was edited
\* while the timeout was pending.
C17_WitnessEdited ==
    /\ ui.event = "timeout"
    /\ ui.invoked.fn = "runSimpleSimulation"
    /\ ui.invoked.params # ui.classicParams

(***************************************************************************)
(* C18.  The overlap warning of the advanced mode.                         *)
(***************************************************************************)
\* Two ranges of the list overlap.
SomeOverlap(ranges) ==
    \E i, j \in 1..Len(ranges) : i # j /\ ranges[i].min < ranges[j].max
                                        /\ ranges[j].min < ranges[i].max

Overlapping(params) == SomeOverlap(params.fdvRanges) \/ SomeOverlap(params.dropRanges)

\* The step started the advanced simulation on the parameters of the form.
StartsAdvanced ==
    /\ ui'.timers = Append(ui.timers, RunCall("runAdvancedSimulation", ui.advancedParams,
                                              ui.thresholds))
    /\ ui'.isRunning

StartsNothing == ui'.timers = ui.timers /\ ui'.isRunning = ui.isRunning

\* What pressing Run does in advanced mode.
RunOpensWarning ==
    IF Overlapping(ui.advancedParams)
    THEN StartsNothing /\ ui'.showOverlapWarning
    ELSE StartsAdvanced /\ ~ui'.showOverlapWarning

\* What the warning does: confirmed, it starts the simulation; closed, it
\* starts nothing; and a simulation on overlapping ranges is started by the
\* confirmation only.
WarningDecides ==
    /\ ui'.event = "handleOverlapConfirm" =>
           ui.showOverlapWarning /\ ~ui'.showOverlapWarning /\ StartsAdvanced
    /\ ui'.event = "onOpenChange" =>
           ui.showOverlapWarning /\ ~ui'.showOverlapWarning /\ StartsNothing
    /\ (Len(ui'.timers) > Len(ui.timers) /\ ui.mode = "advanced"
            /\ Overlapping(ui.advancedParams)) =>
           ui'.event = "handleOverlapConfirm"
    /\ ui.showOverlapWarning => ui'.event \in {"handleOverlapConfirm", "onOpenChange"}

\* C18 as stated: in advanced mode, when two FDV ranges or two Drop% ranges
\* overlap, pressing Run does not start the simulation but opens the overlap
\* warning, the simulation starts only when the user confirms, and closing
\* the warning starts nothing; when no ranges overlap the run starts without
\* a warning.
C18_RunOpensWarning ==
    [][/\ (ui'.event = "handleRunSimulation" /\ ui.mode = "advanced") => RunOpensWarning
       /\ WarningDecides]_vars

\* C18 for parameters that pass validation: pressing Run with parameters
\* validateAdvancedParams accepts opens the warning when ranges overlap and
\* starts the run when none do; with parameters it rejects, Run opens no
\* warning and starts nothing.
C18_ValidRunOpensWarning ==
    [][/\ (ui'.event = "handleRunSimulation" /\ ui.mode = "advanced") =>
              IF ui'.validated.errors = <<>> THEN RunOpensWarning
              ELSE StartsNothing /\ ~ui'.showOverlapWarning
       /\ WarningDecides]_vars

\* The warning was confirmed and the simulation on overlapping ranges is
\* pending.
C18_Witness ==
    /\ ui.event = "handleOverlapConfirm"
    /\ ~ui.showOverlapWarning
    /\ ui.isRunning
    /\ Len(ui.timers) = 1
    /\ Overlapping(ui.timers[1].params)

\* The warning was closed and nothing is pending.
C18_WitnessClosed ==
    /\ ui.event = "onOpenChange"
    /\ ~ui.isRunning
    /\ ui.timers = <<>>
    /\ Overlapping(ui.advancedParams)

\* Run was pressed on ranges that do not overlap and the simulation is
\* pending with no warning shown.
C18_WitnessNoOverlap ==
    /\ ui.event = "handleRunSimulation"
    /\ ui.mode = "advanced"
    /\ ~Overlapping(ui.advancedParams)
    /\ Len(ui.advancedParams.fdvRanges) = 2
    /\ Len(ui.timers) = 1
    /\ ~ui.showOverlapWarning

(***************************************************************************)
(* C22.  For every unsigned 32-bit seed the constructor sets s0 to the     *)
(* seed and s1 to (seed * 1812433253 + 1) mod 2^32, the product and the    *)
(* sum taken in wrapped 32-bit integer arithmetic, and then discards       *)
(* exactly 20 outputs of next() before the first value is handed out.      *)
(***************************************************************************)
\* (seed * 1812433253 + 1) mod 2^32 in integer arithmetic: the low 32 bits of
\* the exact product plus one.
WrappedSeedWord(seed) == ToUint32(DAdd(DMul(seed, SeedMultiplier), Num(1)))

WrappedSeedState(seed) == [s0 |-> seed, s1 |-> WrappedSeedWord(seed)]

C22_WrappedSeedState ==
    prng.calls = 0 => prng.st = WarmUp(WrappedSeedState(prng.seed), WarmUpCalls)

\* What does hold: the state is the wrapped one, twenty calls later, for every
\* seed whose product with the multiplier, plus one, is below 2^53.
C22_ExactSeeds ==
    (prng.calls = 0 /\ MaxBit(DAdd(DMul(prng.seed, SeedMultiplier), Num(1))) < 53)
        => prng.st = WarmUp(WrappedSeedState(prng.seed), WarmUpCalls)

\* A generator constructed from seed 2^31, whose product needs 62 bits.
C22_WitnessLargeSeed == prng.calls = 0 /\ prng.seed = Word(32768, 0)

(***************************************************************************)
(* C24.  The state (s0, s1) of the generator is never (0, 0): not after    *)
(* construction, and not after any number of calls of next().              *)
(***************************************************************************)
C24_StateNeverZero == prng.st # [s0 |-> {}, s1 |-> {}]

\* The generator seeded with 0 after the last call the model makes.
C24_Witness == prng.seed = {} /\ prng.calls = MaxCalls

(***************************************************************************)
(* C25.  For every FDV range fdvMin < fdvMax the zones calculateFDVZones   *)
(* returns are non-empty, each has max > min and lies inside               *)
(* [fdvMin, fdvMax], consecutive zones share a boundary and none overlap,  *)
(* and every FDV sampleFDVMixture draws from them lies in                  *)
(* [fdvMin, fdvMax]: also when fdvMin + 30M exceeds 200M or fdvMin itself  *)
(* exceeds 200M.                                                           *)
(***************************************************************************)
\* The zones tile the range [lo, hi] (in dollars): each of positive width and
\* inside the range, each starting where the one before it ends.
ZonesTile(zones, lo, hi) ==
    /\ Len(zones) > 0
    /\ \A i \in 1..Len(zones) :
           /\ SLt(zones[i].min, zones[i].max)
           /\ SLe(lo, zones[i].min)
           /\ SLe(zones[i].max, hi)
    /\ \A i \in 1..(Len(zones) - 1) : zones[i].max = zones[i + 1].min

ZonesHold ==
    smp.fn = "calculateFDVZones" =>
        ZonesTile(smp.value.zones, SMul(smp.min, Million), SMul(smp.max, Million))

FDVSampleHolds ==
    smp.fn = "sampleFDVMixture" =>
        /\ smp.value.kind = "return"
        /\ SLe(SMul(smp.min, Million), smp.value.value)
        /\ SLe(smp.value.value, SMul(smp.max, Million))

C25_ZonesPartition == ZonesHold /\ FDVSampleHolds

\* What does hold: the zones tile the range and the samples stay inside it
\* when the band of zone A ends at or below the tail threshold of 200M.
C25_BelowTailThreshold ==
    SLe(SAdd(SMul(smp.min, Million), zoneABandwidth), tailThreshold)
        => (ZonesHold /\ FDVSampleHolds)

\* Zones computed for an FDV range that starts above 200M.
C25_WitnessAboveTail ==
    /\ smp.fn = "calculateFDVZones"
    /\ SLt(tailThreshold, SMul(smp.min, Million))
    /\ \E i \in 1..Len(smp.value.zones) :
           SLt(smp.value.zones[i].min, SMul(smp.min, Million))

(***************************************************************************)
(* C27.  After a mode switch the results on display were produced by a run *)
(* started in the current mode: a run scheduled before the switch cannot   *)
(* publish its results after the switch has cleared them.                  *)
(***************************************************************************)
\* The mode whose Run button starts the run function.
ModeOfRun(fn) == IF fn = "runSimpleSimulation" THEN "classic" ELSE "advanced"

C27_ResultsOfCurrentMode ==
    ui.results # Null => ModeOfRun(ui.results.of.fn) = ui.mode

\* What does hold: results on display that no timeout has published since the
\* last mode change or edit are absent after a mode change.
C27_SwitchClearsResults == ui.event = "handleModeChange" => ui.results = Null

\* The timeout of a classic run has fired in advanced mode.
C27_WitnessStaleRun ==
    /\ ui.event = "timeout"
    /\ ui.mode = "advanced"
    /\ ui.results # Null
    /\ ui.results.of.fn = "runSimpleSimulation"

(***************************************************************************)
(* C28.  At most one run is pending at any time: while a timeout is        *)
(* pending isRunning is true, the Run button is disabled and the overlap   *)
(* warning is closed, so neither Run nor the OK of the warning can         *)
(* schedule a second run.                                                  *)
(***************************************************************************)
C28_AtMostOneRunPending ==
    /\ Len(ui.timers) <= 1
    /\ Len(ui.timers) = 1 => ui.isRunning
    /\ ui.showOverlapWarning => ~ui.isRunning

\* A run started from the overlap warning is pending, the results of an
\* earlier run on display.
C28_Witness ==
    /\ ui.event = "handleOverlapConfirm"
    /\ Len(ui.timers) = 1
    /\ ui.isRunning
    /\ ui.results # Null

(***************************************************************************)
(* The thresholds editor (component SimpleThresholds): the list it is      *)
(* given is the thresholds state of the simulator, and every change goes   *)
(* back through onThresholdsChange = setThresholds.                        *)
(***************************************************************************)
MaxThresholds == 4
MaxThresholdValue == 400

\* [...].sort((a, b) => a - b) on finite numbers: ascending order.
RECURSIVE InsertAscending(_, _)
InsertAscending(sorted, v) ==
    IF sorted = <<>> THEN <<v>>
    ELSE IF v - Head(sorted) <= 0 THEN <<v>> \o sorted
    ELSE <<Head(sorted)>> \o InsertAscending(Tail(sorted), v)

RECURSIVE SortAscending(_)
SortAscending(list) ==
    IF list = <<>> THEN <<>>
    ELSE InsertAscending(SortAscending(Tail(list)), Head(list))

\* Math.max(...thresholds, 0)
RECURSIVE MaxWithZero(_)
MaxWithZero(list) ==
    IF list = <<>> THEN 0
    ELSE IF Head(list) > MaxWithZero(Tail(list)) THEN Head(list)
    ELSE MaxWithZero(Tail(list))

addThreshold(thresholds) ==
    SortAscending(Append(thresholds, MaxWithZero(thresholds) + 100))

\* thresholds.filter((_, i) => i !== index), index counted from 0
FilterIndex(thresholds, index) ==
    [i \in 1..(Len(thresholds) - 1) |->
        IF i <= index THEN thresholds[i] ELSE thresholds[i + 1]]

\* removeThreshold without its guard on the length.
removeThreshold_unguarded(thresholds, index) == FilterIndex(thresholds, index)

removeThreshold(thresholds, index) ==
    IF Len(thresholds) <= 1 THEN thresholds ELSE FilterIndex(thresholds, index)

\* updateThreshold without the sort.
updateThreshold_unsorted(thresholds, index, value) ==
    [thresholds EXCEPT ![index + 1] = value]

updateThreshold(thresholds, index, value) ==
    SortAscending([thresholds EXCEPT ![index + 1] = value])

\* parseFloat(e.target.value) of the number input: a number, or NaN for an
\* empty or unreadable field; `|| 0` turns NaN (and 0) into 0.
Parsed(n) == [nan |-> FALSE, value |-> n]
ParsedNaN == [nan |-> TRUE, value |-> 0]
OrZero(parsed) == IF parsed.nan \/ parsed.value = 0 THEN 0 ELSE parsed.value

\* What the user types into a threshold field.
TypedValues == {ParsedNaN, Parsed(-5), Parsed(150), Parsed(300)}

ThrInit ==
    /\ prng = PrngIdle
    /\ vld = VldIdle
    /\ stats = StatsIdle
    /\ smp = SmpIdle
    /\ run = RunIdle
    /\ ui = [mode |-> "classic", thresholds |-> DEFAULT_THRESHOLDS,
             before |-> DEFAULT_THRESHOLDS, event |-> "mount"]

\* The user presses the plus button.
AddThreshold ==
    /\ Len(ui.thresholds) < MaxThresholds
    /\ MaxWithZero(ui.thresholds) + 100 <= MaxThresholdValue
    /\ ui' = [ui EXCEPT !.thresholds = addThreshold(ui.thresholds),
                        !.before = ui.thresholds, !.event = "addThreshold"]
    /\ UNCHANGED <<prng, vld, stats, smp, run>>

\* removeThreshold(index) is called (the button that calls it is rendered
\* while the list has more than one element).
RemoveThreshold ==
    /\ \E index \in 0..(Len(ui.thresholds) - 1) :
           ui' = [ui EXCEPT !.thresholds = removeThreshold(ui.thresholds, index),
                            !.before = ui.thresholds, !.event = "removeThreshold"]
    /\ UNCHANGED <<prng, vld, stats, smp, run>>

\* The user edits the field of one threshold.
UpdateThreshold ==
    /\ \E index \in 0..(Len(ui.thresholds) - 1), typed \in TypedValues :
           ui' = [ui EXCEPT !.thresholds = updateThreshold(ui.thresholds, index,
                                                           OrZero(typed)),
                            !.before = ui.thresholds, !.event = "updateThreshold"]
    /\ UNCHANGED <<prng, vld, stats, smp, run>>

ThrNext == AddThreshold \/ RemoveThreshold \/ UpdateThreshold

SpecThr == ThrInit /\ [][ThrNext]_vars

(***************************************************************************)
(* C30.  After any sequence of addThreshold, removeThreshold and           *)
(* updateThreshold starting from [60, 120, 300] the threshold list is      *)
(* non-empty and sorted in ascending order, and removeThreshold on a list  *)
(* of one element leaves the list as it is.                                *)
(***************************************************************************)
C30_NonEmptySorted ==
    /\ Len(ui.thresholds) >= 1
    /\ \A i \in 1..(Len(ui.thresholds) - 1) : ui.thresholds[i] <= ui.thresholds[i + 1]
    /\ (ui.event = "removeThreshold" /\ Len(ui.before) = 1)
           => ui.thresholds = ui.before

\* removeThreshold has been called on a list of one element.
C30_WitnessLastKept ==
    ui.event = "removeThreshold" /\ Len(ui.before) = 1 /\ Len(ui.thresholds) = 1

\* A field was set to a value above its right neighbour and the list re-sorted.
C30_WitnessResorted ==
    /\ ui.event = "updateThreshold"
    /\ Len(ui.before) = 3
    /\ ui.before[1] < ui.thresholds[1]
    /\ ui.thresholds # ui.before
    /\ ui.thresholds[3] = 300 /\ ui.before[3] # 300

(***************************************************************************)
(* percentile on its own: a sorted array and a p, and one call.            *)
(***************************************************************************)
\* Array elements: those of ValueCases and Infinity, the value of a payout
\* that overflows.
SortedArrays ==
    {Float64Array_sort(a) :
        a \in UNION {[1..n -> ValueCases \cup {Plus(Infinity)}] : n \in 1..MaxValues}}

PercentCases == {0, 5, 33, 50, 75, 100}

PctInit ==
    /\ ui = UiIdle
    /\ prng = PrngIdle
    /\ vld = VldIdle
    /\ stats = StatsIdle
    /\ run = RunIdle
    /\ \E sorted \in SortedArrays, p \in PercentCases :
           smp = [SmpIdle EXCEPT !.args = [of |-> "percentile", sorted |-> sorted,
                                           p |-> p]]

\* percentile(sorted, p)
CallPercentile ==
    /\ smp.fn = "none" /\ smp.args.of = "percentile"
    /\ smp' = [smp EXCEPT !.fn = "percentile",
                          !.value = percentile(smp.args.sorted, smp.args.p)]
    /\ UNCHANGED <<prng, vld, stats, run, ui>>

PctNext == CallPercentile

SpecPct == PctInit /\ [][PctNext]_vars

(***************************************************************************)
(* C23.  For every ascending array of n >= 1 values and every p in         *)
(* [0, 100], percentile(sorted, p) returns                                 *)
(* sorted[floor(r)] * (1 - w) + sorted[ceil(r)] * w with                   *)
(* r = (p / 100) * (n - 1) and w = r - floor(r), and reads no index        *)
(* outside 0 .. n - 1; hence p = 0 gives the minimum, p = 100 the maximum, *)
(* and an array of one element gives that element for every p.             *)
(***************************************************************************)
\* r = (p / 100) * (n - 1), the two indices and the weight.
RankOf(p, n) == SMul(SDiv(SInt(p), SInt(100)), SInt(n - 1))
LowerOf(p, n) == SIntOf(SFloor(RankOf(p, n)))
UpperOf(p, n) == SIntOf(SCeil(RankOf(p, n)))
WeightOf(p, n) == SSub(RankOf(p, n), SInt(LowerOf(p, n)))

Interpolated(sorted, p) ==
    SAdd(SMul(sorted[LowerOf(p, Len(sorted)) + 1],
              SSub(One, WeightOf(p, Len(sorted)))),
         SMul(sorted[UpperOf(p, Len(sorted)) + 1], WeightOf(p, Len(sorted))))

\* The formula and the indices it reads.
InterpolatesInRange(sorted, p, value) ==
    /\ LowerOf(p, Len(sorted)) \in 0..(Len(sorted) - 1)
    /\ UpperOf(p, Len(sorted)) \in 0..(Len(sorted) - 1)
    /\ value = Interpolated(sorted, p)

\* The three consequences.
EndsAndSingle(sorted, p, value) ==
    /\ p = 0 => value = sorted[1]
    /\ p = 100 => value = sorted[Len(sorted)]
    /\ Len(sorted) = 1 => value = sorted[1]

AllFinite(sorted) ==
    \A i \in 1..Len(sorted) : sorted[i].mag # Infinity /\ ~SIsNaN(sorted[i])

\* The claim as stated, for every array.
C23_Interpolation ==
    smp.fn = "percentile" =>
        /\ InterpolatesInRange(smp.args.sorted, smp.args.p, smp.value)
        /\ EndsAndSingle(smp.args.sorted, smp.args.p, smp.value)

\* The claim with the consequences for arrays of finite values only.
C23_FiniteInterpolation ==
    smp.fn = "percentile" =>
        /\ InterpolatesInRange(smp.args.sorted, smp.args.p, smp.value)
        /\ AllFinite(smp.args.sorted)
               => EndsAndSingle(smp.args.sorted, smp.args.p, smp.value)

\* A percentile strictly between two different neighbours.
C23_Witness ==
    /\ smp.fn = "percentile"
    /\ AllFinite(smp.args.sorted)
    /\ Len(smp.args.sorted) = 3
    /\ WeightOf(smp.args.p, 3) # Zero
    /\ SLt(smp.args.sorted[LowerOf(smp.args.p, 3) + 1], smp.value)
    /\ SLt(smp.value, smp.args.sorted[UpperOf(smp.args.p, 3) + 1])

\* The maximum of an array of three finite values, asked for as p = 100.
C23_WitnessMaximum ==
    /\ smp.fn = "percentile"
    /\ smp.args.p = 100
    /\ Len(smp.args.sorted) = 3
    /\ AllFinite(smp.args.sorted)
    /\ smp.value = smp.args.sorted[3]
    /\ smp.args.sorted[1] # smp.args.sorted[3]

\* The percentile of the array [Infinity] is NaN.
C23_WitnessInfinity ==
    /\ smp.fn = "percentile"
    /\ smp.args.sorted = <<Plus(Infinity)>>
    /\ SIsNaN(smp.value)

(***************************************************************************)
(* C26.  Value i of a run depends on the seed, the distribution parameters *)
(* and i only, not on numSimulations: with the same seed and otherwise     *)
(* equal parameters, the values of a run of N simulations are the first N  *)
(* values of a run of M > N simulations.                                   *)
(***************************************************************************)
\* The state of a run function before its loop.
StartOf(fn, params, thresholds, seed) ==
    IF fn = "runSimpleSimulation" THEN SimpleStart(params, thresholds, seed)
    ELSE IF fn = "runSimulation" THEN FixedStart(params, thresholds, seed)
    ELSE AdvancedStart(params, thresholds, seed)

IterationOf(fn, params, tables, rng) ==
    IF fn = "runSimpleSimulation" THEN SimpleIteration(params, tables, rng)
    ELSE IF fn = "runSimulation" THEN FixedIteration(params, tables, rng)
    ELSE AdvancedIteration(params, tables, rng)

\* The values the loop stores in its first k iterations, from generator state
\* rng on (none from an iteration that throws).
RECURSIVE LoopValues(_, _, _, _, _)
LoopValuesAfter(fn, params, tables, it, k) ==
    (CASE it = it -> IF it.outcome.kind = "throw" THEN <<>>
                ELSE <<it.outcome.value>>
                     \o LoopValues(fn, params, tables, it.rng, k - 1))
LoopValues(fn, params, tables, rng, k) ==
    IF k = 0 THEN <<>>
    ELSE LoopValuesAfter(fn, params, tables, IterationOf(fn, params, tables, rng), k)

LoopValuesFrom(fn, s) ==
    (CASE s = s -> LoopValues(fn, s.params, s.tables, s.rng, s.params.numSimulations))

\* The value array of the call fn(params, thresholds), params holding a seed.
RunValues(fn, params, thresholds) ==
    LoopValuesFrom(fn, StartOf(fn, params, thresholds, SeedOf(params, {})))

\* The same parameters with numSimulations raised to MaxSimulations.
Longer(params) == [params EXCEPT !.numSimulations = MaxSimulations]

C26_PrefixOfLongerRun ==
    (run.pc \in {"loop", "returned"} /\ Has(run.input.params, "seed")) =>
        run.values = SubSeq(RunValues(run.fn, Longer(run.input.params),
                                      run.input.thresholds),
                            1, Len(run.values))

\* A seeded run of fewer than MaxSimulations simulations has returned.
C26_Witness ==
    /\ run.pc = "returned"
    /\ Has(run.input.params, "seed")
    /\ run.input.params.numSimulations < MaxSimulations
    /\ Len(run.values) = run.input.params.numSimulations
    /\ Len(RunValues(run.fn, Longer(run.input.params), run.input.thresholds))
           = MaxSimulations

\* The same for runAdvancedSimulation.
C26_WitnessAdvanced == C26_Witness /\ run.fn = "runAdvancedSimulation"

(***************************************************************************)
(* C21.  For parameters the validator accepts, worstCase is the smallest   *)
(* FDV bound times the smallest drop fraction over the supply and bestCase *)
(* the largest FDV bound times the largest drop fraction over the supply,  *)
(* and every value of the run is > 0 and lies in [worstCase, bestCase]: so *)
(* stats.min >= worstCase, stats.max <= bestCase and the median lies       *)
(* between the two.                                                        *)
(***************************************************************************)
\* Every value so far is positive and between the anchors.
ValuesWithin(values, anchors) ==
    \A k \in 1..Len(values) :
        /\ SLt(Zero, values[k])
        /\ SLe(anchors.worstCase, values[k])
        /\ SLe(values[k], anchors.bestCase)

\* The statistics of a returned result lie between its anchors.
StatsWithin(result) ==
    /\ SLe(result.worstCase, result.stats.min)
    /\ SLe(result.stats.max, result.bestCase)
    /\ SLe(result.worstCase, result.stats.median)
    /\ SLe(result.stats.median, result.bestCase)

WithinAnchors ==
    /\ run.pc \in {"loop", "returned"}
           => ValuesWithin(run.values, Anchors(run.fn, run.params, run.tables))
    /\ run.pc = "returned" => StatsWithin(run.result.value)

C21_ValuesWithinAnchors ==
    (run.pc # "idle" /\ ~ContractViolated(run.fn, run.input.params)) => WithinAnchors

\* What does hold: the same for the runs of runAdvancedSimulation and for the
\* runs of runSimpleSimulation whose FDV range starts at most 30M below the
\* tail threshold of 200M.
C21_WithinBelowTail ==
    (/\ run.pc # "idle"
     /\ ~ContractViolated(run.fn, run.input.params)
     /\ run.fn = "runSimpleSimulation" => SLe(run.input.params.fdvMinM, SInt(170)))
        => WithinAnchors

\* A returned run of runSimpleSimulation on the FDV range 250..400 with a
\* value below worstCase.
C21_WitnessBelowWorst ==
    /\ run.pc = "returned"
    /\ run.fn = "runSimpleSimulation"
    /\ ~ContractViolated(run.fn, run.input.params)
    /\ \E k \in 1..Len(run.values) : SLt(run.values[k], run.result.value.worstCase)
    /\ SLt(run.result.value.stats.min, run.result.value.worstCase)

(***************************************************************************)
(* The simulator and the run functions together.  ui holds the React state *)
(* of the component, with the numbers of the forms as doubles, and the     *)
(* callback setTimeout holds; the user edits the forms and the thresholds, *)
(* switches tabs, presses Run and answers the overlap warning.  A callback *)
(* runs to its end before the next event is handled: the timeout is one    *)
(* step, in which the run function returns and the callback stores the     *)
(* results and resets isRunning, or the run function throws and the        *)
(* callback, which has no try / catch, ends there.  The user presses Run   *)
(* on forms of at most MaxAppSimulations simulations, so that every        *)
(* callback set is one whose run function the model executes.              *)
(* run.outcomes[<<call, random>>] is RunOutcome(call, random), worked out  *)
(* once.                                                                   *)
(***************************************************************************)
MaxAppSimulations == 1000

\* validateParams(params) for a form whose numbers are doubles.  A comparison
\* with NaN is false, so that a NaN field pushes no error.
SimpleErrors(params) ==
       PushIf(SLe(params.nftSupply, Zero),
              Err("nftSupply", "NFT supply must be greater than 0"))
    \o PushIf(SLe(params.fdvMinM, Zero),
              Err("fdvMinM", "FDV Min must be greater than 0"))
    \o PushIf(SLe(params.fdvMaxM, Zero),
              Err("fdvMaxM", "FDV Max must be greater than 0"))
    \o PushIf(SLe(params.fdvMaxM, params.fdvMinM),
              Err("fdvMaxM", "FDV Max must be greater than FDV Min"))
    \o PushIf(SLe(params.dropMinPct, Zero),
              Err("dropMinPct", "Drop% Min must be greater than 0"))
    \o PushIf(SLe(params.dropMaxPct, Zero) \/ SLt(SInt(MaxDropPct), params.dropMaxPct),
              Err("dropMaxPct", "Drop% Max must be between 0 and 100"))
    \o PushIf(SLe(params.dropMaxPct, params.dropMinPct),
              Err("dropMaxPct", "Drop% Max must be greater than Drop% Min"))
    \o PushIf(params.numSimulations < MinSimulations,
              Err("numSimulations", "Simulations must be at least 1,000"))

\* validateParams(params).length === 0
SimpleAccepted(params) == Len(SimpleErrors(params)) = 0

\* The checks of a prediction-centric range.
ExpectedRangeErrors(field, range) ==
    IF range.distributionType # "predictionCentric" THEN <<>>
    ELSE IF ~Has(range, "expectedMin") \/ ~Has(range, "expectedMax")
    THEN <<RErr(field, range, "Expected range is required for Prediction-Centric")>>
    ELSE PushIf(SLt(range.expectedMin, range.min) \/ SLt(range.max, range.expectedMax),
                RErr(field, range, "Expected range must be within the main range"))
      \o PushIf(SLe(range.expectedMax, range.expectedMin),
                RErr(field, range, "Expected Max must be greater than Expected Min"))

\* The bodies of the loops over params.fdvRanges and params.dropRanges.
FdvErrors(range) ==
       PushIf(SLt(range.min, Zero),
              RErr("fdvRanges", range, "FDV Min must be non-negative"))
    \o PushIf(SLe(range.max, range.min),
              RErr("fdvRanges", range, "FDV Max must be greater than Min"))
    \o ExpectedRangeErrors("fdvRanges", range)

DropErrors(range) ==
       PushIf(SLe(range.min, Zero),
              RErr("dropRanges", range, "Drop% Min must be greater than 0"))
    \o PushIf(SLt(SInt(MaxDropPct), range.max),
              RErr("dropRanges", range, "Drop% Max cannot exceed 100"))
    \o PushIf(SLe(range.max, range.min),
              RErr("dropRanges", range, "Drop% Max must be greater than Min"))
    \o ExpectedRangeErrors("dropRanges", range)

\* validateAdvancedParams(params) for a form whose numbers are doubles.
AdvancedErrors(params) ==
       PushIf(SLe(params.nftSupply, Zero),
              [field |-> "nftSupply", message |-> "NFT supply must be greater than 0"])
    \o PushIf(Len(params.fdvRanges) = 0,
              [field |-> "fdvRanges", message |-> "At least one FDV range is required"])
    \o PushIf(Len(params.dropRanges) = 0,
              [field |-> "dropRanges",
               message |-> "At least one Airdrop % range is required"])
    \o ForEachRange(FdvErrors, params.fdvRanges, 1)
    \o ForEachRange(DropErrors, params.dropRanges, 1)
    \o PushIf(params.numSimulations < MinSimulations,
              [field |-> "numSimulations",
               message |-> "Simulations must be at least 1,000"])

\* validateAdvancedParams(params).length === 0
AdvancedAccepted(params) == Len(AdvancedErrors(params)) = 0

\* hasOverlap(ranges) on doubles: a.min < b.max && b.min < a.max for a pair
\* of ranges.
OverlapAmong(ranges) ==
    \E i, j \in 1..Len(ranges) :
        /\ i < j
        /\ SLt(ranges[i].min, ranges[j].max)
        /\ SLt(ranges[j].min, ranges[i].max)

\* The parameters with numSimulations set in the form.
Simulated(params, numSimulations) == [params EXCEPT !.numSimulations = numSimulations]

\* A range with its bounds as doubles.
RangeNumbers(range) == [range EXCEPT !.min = SInt(@), !.max = SInt(@)]

\* DEFAULT_PARAMS
ClassicDefaults ==
    [nftSupply |-> SInt(DEFAULT_PARAMS.nftSupply),
     fdvMinM |-> SInt(DEFAULT_PARAMS.fdvMinM), fdvMaxM |-> SInt(DEFAULT_PARAMS.fdvMaxM),
     dropMinPct |-> SInt(DEFAULT_PARAMS.dropMinPct),
     dropMaxPct |-> SInt(DEFAULT_PARAMS.dropMaxPct),
     numSimulations |-> DEFAULT_PARAMS.numSimulations]

\* DEFAULT_ADVANCED_PARAMS of a load of the module in which generateRangeId
\* returned fdvId and dropId.
AdvancedDefaults(fdvId, dropId) ==
    [nftSupply |-> SInt(DEFAULT_ADVANCED_PARAMS(fdvId, dropId).nftSupply),
     fdvRanges |-> <<RangeNumbers(DEFAULT_ADVANCED_PARAMS(fdvId, dropId).fdvRanges[1])>>,
     dropRanges |-> <<RangeNumbers(DEFAULT_ADVANCED_PARAMS(fdvId, dropId).dropRanges[1])>>,
     numSimulations |-> DEFAULT_ADVANCED_PARAMS(fdvId, dropId).numSimulations]

\* What the user types into Number of Simulations: the default, the smallest
\* count the validators accept and the largest they reject.
SimulationCounts == {DEFAULT_PARAMS.numSimulations, MinSimulations, MinSimulations - 1}

\* The arguments of handleClassicParamChange: Number of Simulations set to
\* one of these, FDV Min set above FDV Max and set back.
AppClassicChanges ==
    {<<"numSimulations", n>> : n \in SimulationCounts}
    \cup {<<"fdvMinM", SInt(250)>>, <<"fdvMinM", SInt(DEFAULT_PARAMS.fdvMinM)>>}

\* The range Add Range appends to the FDV ranges, with the id that call of
\* generateRangeId returned.
AddedFdvRange ==
    [id |-> "k81mzq04x", min |-> SInt(50), max |-> SInt(150),
     distributionType |-> "uniform", weight |-> SInt(20)]

\* The arguments of handleAdvancedParamsChange: the form as it is mounted;
\* the form with an FDV range added, which overlaps the first, an NFT supply
\* of 8888 millions and the smallest numSimulations; the form with a
\* numSimulations the validator rejects; and the form with the FDV range
\* 2^1007 .. 2^1010 millions (about 1.4e303 .. 1.1e304), whose payouts
\* overflow, and the smallest numSimulations.
AppAdvancedForms(mounted) ==
    {mounted,
     [mounted EXCEPT !.nftSupply = SMul(SInt(DEFAULT_PARAMS.nftSupply), Million),
                     !.fdvRanges = Append(@, AddedFdvRange),
                     !.numSimulations = MinSimulations],
     [mounted EXCEPT !.numSimulations = MinSimulations - 1],
     [mounted EXCEPT !.fdvRanges = <<[@[1] EXCEPT !.min = Plus({1007}),
                                                  !.max = Plus({1010})]>>,
                     !.numSimulations = MinSimulations]}

\* The arguments of setThresholds.
AppThresholdLists == {DefaultThresholds, <<SInt(100)>>}

\* The iterations of the loop of a run function, k of them, the first half
\* first: st holds the generator, the values stored so far and the exception
\* that ended the loop, if one did.
NotThrown == [kind |-> "none"]
LoopStep(st, it) ==
    (CASE it = it -> IF it.outcome.kind = "throw"
                THEN [st EXCEPT !.rng = it.rng, !.thrown = it.outcome]
                ELSE [st EXCEPT !.rng = it.rng, !.values = Append(@, it.outcome.value)])
RECURSIVE LoopFrom(_, _, _, _, _)
LoopFrom(fn, params, tables, st, k) ==
    CASE st # st -> st
      [] st.thrown.kind = "throw" \/ k <= 0 -> st
      [] k = 1 -> LoopStep(st, IterationOf(fn, params, tables, st.rng))
      [] OTHER -> LoopFrom(fn, params, tables,
                           LoopFrom(fn, params, tables, st, k \div 2), k - k \div 2)
LoopOf(fn, s) ==
    (CASE s = s -> LoopFrom(fn, s.params, s.tables,
                        [rng |-> s.rng, values |-> <<>>, thrown |-> NotThrown],
                        s.params.numSimulations))

\* The run function from the end of its loop to the histogram: the sorted
\* values, the statistics and what createHistogram returned or threw.
RunSummary(fn, s, values, sorted) ==
    (CASE sorted = sorted ->
        [thrown |-> NotThrown, values |-> values, sorted |-> sorted,
         stats |-> ComputeStats(values, sorted),
         histogram |-> createHistogram(values, NumBins),
         anchors |-> Anchors(fn, s.params, s.tables)])
RunAfterLoop(fn, s, loop) ==
    (CASE loop = loop ->
        IF loop.thrown.kind = "throw"
        THEN [thrown |-> loop.thrown, values |-> loop.values]
        ELSE RunSummary(fn, s, loop.values, Float64Array_sort(loop.values)))
RunFrom(fn, s) == (CASE s = s -> RunAfterLoop(fn, s, LoopOf(fn, s)))

\* The run function up to its threshold probabilities, its generator seeded
\* with params.seed ?? random.
RunBody(fn, params, random) == RunFrom(fn, StartOf(fn, params, <<>>, SeedOf(params, random)))

\* What the run function returns or throws after body, and whether one of
\* its values is Infinity.
RunEnd(body, thresholds) ==
    [outcome |->
         IF body.thrown.kind = "throw" THEN body.thrown
         ELSE IF body.histogram.kind = "throw" THEN body.histogram
         ELSE Return([stats |-> body.stats, histogram |-> body.histogram.value,
                      thresholdProbs |-> calcThresholdProbs(body.sorted, thresholds),
                      worstCase |-> body.anchors.worstCase,
                      bestCase |-> body.anchors.bestCase]),
     overflow |-> SomeInfinite(body.values)]

\* The call of a run function, call.fn(call.params, call.thresholds), where
\* Math.random would give random as the seed.
RunOutcome(call, random) == RunEnd(RunBody(call.fn, call.params, random), call.thresholds)

\* RunOutcome for the calls of calls and the seeds of randoms, the loop of a
\* run function executed once for the threshold lists it is called with.
OutcomesFrom(bodies, calls, randoms) ==
    (CASE bodies = bodies ->
        [k \in calls \X randoms |->
            RunEnd(bodies[<<k[1].fn, k[1].params, k[2]>>], k[1].thresholds)])
Outcomes(calls, randoms) ==
    OutcomesFrom([b \in {<<c.fn, c.params, r>> : c \in calls, r \in randoms}
                     |-> RunBody(b[1], b[2], b[3])],
                 calls, randoms)

\* The user runs simulations of at most MaxAppSimulations values; Executed
\* holds of the forms the user presses Run on.
Executed(params) == params.numSimulations <= MaxAppSimulations

\* The calls the callbacks make for these forms.
AppCalls(mounted) ==
    {RunCall("runSimpleSimulation", p, t) :
         p \in {q \in {Simulated(ClassicDefaults, n) : n \in SimulationCounts} :
                    SimpleAccepted(q) /\ Executed(q)},
         t \in AppThresholdLists}
    \cup {RunCall("runAdvancedSimulation", p, t) :
              p \in {q \in AppAdvancedForms(mounted) : AdvancedAccepted(q) /\ Executed(q)},
              t \in AppThresholdLists}

\* No callback has run yet.  (outcomes is RunOutcome for the calls the
\* callbacks make, evaluated once.)
AppRunIdle(outcomes) ==
    [pc |-> "idle", call |-> NoCall, random |-> {}, outcomes |-> outcomes]

AppMounted(classicParams, advancedParams) ==
    [mode |-> "classic", classicParams |-> classicParams, classicErrors |-> <<>>,
     advancedParams |-> advancedParams, advancedErrors |-> <<>>,
     thresholds |-> DefaultThresholds,
     results |-> Null, isRunning |-> FALSE, showOverlapWarning |-> FALSE,
     timers |-> <<>>]

\* The forms of the load in which generateRangeId returned these two ids.
MountedAdvanced == AdvancedDefaults("3p282cyyb", "0s3wexku7")

\* The component as it is mounted.
AppInit ==
    /\ prng = PrngIdle
    /\ vld = VldIdle
    /\ stats = StatsIdle
    /\ smp = SmpIdle
    /\ run = AppRunIdle(Outcomes(AppCalls(MountedAdvanced), RandomSeeds))
    /\ ui = AppMounted(ClassicDefaults, MountedAdvanced)

\* handleRunSimulation, mode === 'classic'
AppRunClassic(u) ==
    IF ~SimpleAccepted(u.classicParams)
    THEN [u EXCEPT !.classicErrors = SimpleErrors(u.classicParams)]
    ELSE Scheduled([u EXCEPT !.classicErrors = <<>>],
                   RunCall("runSimpleSimulation", u.classicParams, u.thresholds))

\* handleRunSimulation, the other branch
AppRunAdvanced(u) ==
    IF ~AdvancedAccepted(u.advancedParams)
    THEN [u EXCEPT !.advancedErrors = AdvancedErrors(u.advancedParams)]
    ELSE IF OverlapAmong(u.advancedParams.fdvRanges)
            \/ OverlapAmong(u.advancedParams.dropRanges)
    THEN [u EXCEPT !.advancedErrors = <<>>, !.showOverlapWarning = TRUE]
    ELSE Scheduled([u EXCEPT !.advancedErrors = <<>>],
                   RunCall("runAdvancedSimulation", u.advancedParams, u.thresholds))

\* The user presses Run, on a form of at most MaxAppSimulations simulations:
\* handleRunSimulation validates and schedules the run.
AppRun ==
    /\ ~RunButtonDisabled(ui) /\ ~ui.showOverlapWarning
    /\ Executed(IF ui.mode = "classic" THEN ui.classicParams ELSE ui.advancedParams)
    /\ ui' = IF ui.mode = "classic" THEN AppRunClassic(ui) ELSE AppRunAdvanced(ui)
    /\ UNCHANGED <<prng, vld, stats, smp, run>>

\* The user selects the other tab: handleModeChange.
AppModeChange ==
    /\ ~ui.showOverlapWarning
    /\ \E newMode \in {"classic", "advanced"} \ {ui.mode} :
           ui' = [ui EXCEPT !.mode = newMode, !.results = Null]
    /\ UNCHANGED <<prng, vld, stats, smp, run>>

\* The user edits a field of the classic form: handleClassicParamChange.
AppClassicParamChange ==
    /\ ui.mode = "classic" /\ ~ui.showOverlapWarning
    /\ \E c \in AppClassicChanges :
           ui' = [ui EXCEPT !.classicParams = [@ EXCEPT ![c[1]] = c[2]],
                            !.classicErrors = FilterField(@, c[1])]
    /\ UNCHANGED <<prng, vld, stats, smp, run>>

\* The user edits the advanced form: handleAdvancedParamsChange.
AppAdvancedParamsChange ==
    /\ ui.mode = "advanced" /\ ~ui.showOverlapWarning
    /\ \E params \in AppAdvancedForms(MountedAdvanced) :
           ui' = [ui EXCEPT !.advancedParams = params, !.advancedErrors = <<>>]
    /\ UNCHANGED <<prng, vld, stats, smp, run>>

\* The user edits the thresholds, shown with the results: setThresholds.
AppSetThresholds ==
    /\ ui.results # Null /\ ~ui.showOverlapWarning
    /\ \E t \in AppThresholdLists : ui' = [ui EXCEPT !.thresholds = t]
    /\ UNCHANGED <<prng, vld, stats, smp, run>>

\* The user presses OK in the overlap warning: handleOverlapConfirm.
AppOverlapConfirm ==
    /\ ui.showOverlapWarning
    /\ ui' = Scheduled([ui EXCEPT !.showOverlapWarning = FALSE],
                       RunCall("runAdvancedSimulation", ui.advancedParams,
                               ui.thresholds))
    /\ UNCHANGED <<prng, vld, stats, smp, run>>

\* The user closes the overlap warning.
AppCloseOverlapWarning ==
    /\ ui.showOverlapWarning
    /\ ui' = [ui EXCEPT !.showOverlapWarning = FALSE]
    /\ UNCHANGED <<prng, vld, stats, smp, run>>

\* The callback with the run function's outcome done: after a return,
\* setResults(newResults); setIsRunning(false).
AppCalledBack(u, done) ==
    IF done.outcome.kind = "throw"
    THEN [u EXCEPT !.timers = Tail(@)]
    ELSE [u EXCEPT !.timers = Tail(@),
                   !.results = [kind |-> "results", of |-> done.outcome.value],
                   !.isRunning = FALSE]

\* The timeout fires: its callback calls the run function, whose seed is what
\* Math.random gives.
AppTimeout ==
    /\ Len(ui.timers) > 0
    /\ \E random \in RandomSeeds :
           /\ ui' = AppCalledBack(ui, run.outcomes[<<Head(ui.timers), random>>])
           /\ run' = [run EXCEPT
                         !.pc = IF run.outcomes[<<Head(ui.timers), random>>].outcome.kind
                                       = "throw"
                                THEN "thrown" ELSE "returned",
                         !.call = Head(ui.timers),
                         !.random = random]
    /\ UNCHANGED <<prng, vld, stats, smp>>

AppNext ==
    \/ AppRun
    \/ AppModeChange
    \/ AppClassicParamChange
    \/ AppAdvancedParamsChange
    \/ AppSetThresholds
    \/ AppOverlapConfirm
    \/ AppCloseOverlapWarning
    \/ AppTimeout

SpecApp == AppInit /\ [][AppNext]_vars

\* The event loop runs a due timeout; the user need not press anything.
SpecAppFair == SpecApp /\ WF_vars(AppTimeout)

(***************************************************************************)
(* C29.  Every scheduled run finishes: whenever isRunning becomes true it  *)
(* becomes false again with results set, for every parameter set that      *)
(* passed validation, so that the Run button is never disabled for good.   *)
(***************************************************************************)
C29_RunFinishes == ui.isRunning ~> (~ui.isRunning /\ ui.results # Null)

\* What does hold: a run function throws only if a value of the run is
\* Infinity, and it throws whenever a value is.
AppThrown == run.pc = "thrown"

C29_ThrowsOnOverflowOnly ==
    /\ \A k \in DOMAIN run.outcomes :
           (run.outcomes[k].outcome.kind = "throw") = run.outcomes[k].overflow
    /\ run.pc = "returned" => ~run.outcomes[<<run.call, run.random>>].overflow
    /\ run.pc = "thrown" => run.outcomes[<<run.call, run.random>>].overflow

\* Runs whose values are finite finish.
FiniteDue ==
    /\ Len(ui.timers) > 0
    /\ \A random \in RandomSeeds : ~run.outcomes[<<Head(ui.timers), random>>].overflow

C29_FiniteRunsFinish == (ui.isRunning /\ FiniteDue) ~> (~ui.isRunning /\ ui.results # Null)

\* The callback of an accepted run has thrown: isRunning stays true and no
\* results are set.
C29_WitnessStuck ==
    /\ AppThrown
    /\ run.call.fn = "runAdvancedSimulation"
    /\ run.call.params = ui.advancedParams
    /\ AdvancedAccepted(ui.advancedParams)
    /\ ~OverlapAmong(ui.advancedParams.fdvRanges)
    /\ ui.isRunning
    /\ ui.results = Null
    /\ ui.timers = <<>>

====
